---- MODULE Spec2Model ----
(***************************************************************************)
(* ShadowDiff: schema-driven JSON comparison engine.                       *)
(*                                                                         *)
(* compare(old_json, new_json, schema_fragment) runs a four-stage pipeline *)
(* (schema resolution, normalization, masking, typed diffing) and returns  *)
(* a DiffReport or an ErrorResponse.  The module models the engine as a    *)
(* state machine whose actions are the stages of one call, and the stages  *)
(* as operators translated from src/shadowdiff/*.py.                       *)
(*                                                                         *)
(* JSON values (documents and schemas alike) are tagged records:           *)
(*   null, bool(b), num(n), str(s), arr(e: sequence), obj(f: key -> value) *)
(* Python's None is the JSON null.  int and float are one tag "num" with   *)
(* a flag `float`; a number is hi * 2^53 + n, so that the integers next to *)
(* 2^53, which float() rounds, are values of the model.  Floats are whole  *)
(* numbers here.                                                           *)
(***************************************************************************)
EXTENDS Integers, Sequences, FiniteSets, TLC

VARIABLES
    pc,             \* position of the running compare() call
    cfg,            \* EngineConfig of the engine (engine.py:51)
    hashOrder,      \* iteration order of Python sets of strings in this process
    B, C, S,        \* the caller's baseline, candidate and schema objects
    B0, C0, S0,     \* their values when the call started
    sharedLocs,     \* locations of the resolved schema that are objects of S
    traverser,      \* SchemaTraverser of this call: the resolved schema
    global_rules,   \* GlobalRules of this call
    old_normalized, new_normalized, \* what normalizer.normalize is building
    old_masked, new_masked,         \* what masker.mask returned
    masker,         \* Masker of this call: ignored_count
    differ,         \* Differ of this call: diffs, warnings, traces, ...
    is_match,       \* return value of differ.diff
    result,         \* what compare() returned
    calls,          \* number of compare() calls finished on these inputs
    prev            \* what the previous call on these inputs returned

vars == <<pc, cfg, hashOrder, B, C, S, B0, C0, S0, sharedLocs, traverser,
          global_rules, old_normalized, new_normalized, old_masked, new_masked,
          masker, differ, is_match, result, calls, prev>>

-----------------------------------------------------------------------------
(* JSON values *)

Null == [t |-> "null"]
Bool(b) == [t |-> "bool", b |-> b]
Num(n) == [t |-> "num", n |-> n, hi |-> 0, float |-> FALSE]
Flt(n) == [t |-> "num", n |-> n, hi |-> 0, float |-> TRUE]
BigNum(n) == [t |-> "num", n |-> n, hi |-> 1, float |-> FALSE]
Str(s) == [t |-> "str", s |-> s]
Arr(e) == [t |-> "arr", e |-> e]
Obj(f) == [t |-> "obj", f |-> f]

EmptyFun == [k \in {} |-> Null]
EmptyObj == Obj(EmptyFun)
EmptyArr == Arr(<<>>)

IsObj(v) == v.t = "obj"
IsArr(v) == v.t = "arr"
IsNum(v) == v.t = "num"
IsStr(v) == v.t = "str"
IsBool(v) == v.t = "bool"

\* Python truthiness of a JSON value (`if schemas:`, `if schema_node:`).
Truthy(v) ==
    CASE v.t = "null" -> FALSE
      [] v.t = "bool" -> v.b
      [] v.t = "num" -> v.n # 0 \/ v.hi # 0
      [] v.t = "str" -> v.s # ""
      [] v.t = "arr" -> v.e # <<>>
      [] v.t = "obj" -> DOMAIN v.f # {}

\* `key in d`, `d.get(key)`, `d.get(key, default)`, `d[key] = v`, `del d[key]`
Has(o, k) == o.t = "obj" /\ k \in DOMAIN o.f
Get(o, k) == IF Has(o, k) THEN o.f[k] ELSE Null
GetD(o, k, d) == IF Has(o, k) THEN o.f[k] ELSE d
Put(o, k, v) == Obj([x \in DOMAIN o.f \cup {k} |-> IF x = k THEN v ELSE o.f[x]])
Del(o, k) == Obj([x \in DOMAIN o.f \ {k} |-> o.f[x]])

\* One-entry and two-entry dicts, for writing schemas and documents.
O1(k1, v1) == Obj([x \in {k1} |-> v1])
O2(k1, v1, k2, v2) == Obj([x \in {k1, k2} |-> IF x = k1 THEN v1 ELSE v2])
O3(k1, v1, k2, v2, k3, v3) ==
    Obj([x \in {k1, k2, k3} |-> IF x = k1 THEN v1 ELSE IF x = k2 THEN v2 ELSE v3])
\* Iteration order of a dict: Python dicts iterate in insertion order; the
\* modelled documents and schemas are built with their keys in this order.
DictOrder ==
    << "components", "schemas", "definitions", "Main", "Other", "$ref", "type",
       "x-migration-global-ignores", "x-migration-allow-null-as-missing",
       "x-migration-empty-string-as-null",
       "x-migration-strategy", "x-migration-alias", "x-migration-precision",
       "x-migration-case-insensitive", "x-migration-trim-whitespace",
       "x-migration-cast", "x-migration-pattern", "x-migration-datetime-format",
       "x-migration-datetime-tolerance", "x-migration-default",
       "x-migration-enum-map", "x-migration-array-mode", "x-migration-array-key",
       "x-migration-order-by", "x-migration-ignore-extra-items",
       "x-migration-ignore-missing-items", "x-migration-array-subset",
       "x-migration-duplicate-handling", "x-migration-inherit-rules",
       "x-migration-when",
       "properties", "items", "additionalProperties",
       "old", "new", "p", "k", "q", "arr", "a", "b", "sku", "tier", "updatedAt",
       "_index", "x", "y", "A", "PAID" >>

KeysOf(o) == SelectSeq(DictOrder, LAMBDA k : k \in DOMAIN o.f)

RECURSIVE Invoke(_, _)
RECURSIVE SeqRev(_)
SeqRev(s) == IF s = <<>> THEN <<>> ELSE Append(SeqRev(Tail(s)), Head(s))

\* Iteration order of a Python set of strings: decided by the process's string
\* hash seed, the same for every set built in the process.
SetOrders == {DictOrder, SeqRev(DictOrder)}
SetIter(keys, order) == SelectSeq(order, LAMBDA k : k \in keys)

-----------------------------------------------------------------------------
(* Strings: str.lower and str.strip on the modelled strings *)

LowerTab == [s \in {"A", " A "} |-> IF s = "A" THEN "a" ELSE " a "]
StripTab == [s \in {" a ", " A "} |-> IF s = " a " THEN "a" ELSE "A"]
Lower(s) == IF s \in DOMAIN LowerTab THEN LowerTab[s] ELSE s
Strip(s) == IF s \in DOMAIN StripTab THEN StripTab[s] ELSE s

Abs(x) == IF x < 0 THEN -x ELSE x
Min(x, y) == IF x < y THEN x ELSE y

-----------------------------------------------------------------------------
(* Paths.  The code builds path strings and parses them back; a path is    *)
(* kept here as the sequence of its steps: [k |-> name] for ".name",       *)
(* [i |-> n] for "[n]" and [q |-> key] for a keyed item "[?(@.f==key)]".   *)

KeySeg(name) == [k |-> name]
IdxSeg(n) == [i |-> n]
FilterSeg(key) == [q |-> key]
CompositeSeg(key) == [c |-> key]
RootPath == <<>>

\* The property name the path regex reads out of "[?(@.sku=='A')]": the text
\* after the dot, "sku=='A')", which is no name of any schema property.
FilterName == "@filter"

\* SchemaTraverser._parse_path_segments: an int for "[n]", a string otherwise.
\* No alternative of the regex matches "[key=('A', 1)]", the step of an item
\* keyed by a list of fields: it leaves no segment.
_parse_path_segments(path) ==
    LET matched == SelectSeq(path, LAMBDA seg : "c" \notin DOMAIN seg) IN
    [j \in 1..Len(matched) |->
        IF "i" \in DOMAIN matched[j] THEN matched[j]
        ELSE IF "k" \in DOMAIN matched[j] THEN matched[j]
        ELSE KeySeg(FilterName)]

\* First value of a dict (`next(iter(schemas.values()))`).
FirstValue(o) == o.f[Head(KeysOf(o))]

\* SchemaTraverser._get_root_schema
_get_root_schema(schema) ==
    IF Has(schema, "components") /\ Has(Get(schema, "components"), "schemas")
       /\ Truthy(Get(Get(schema, "components"), "schemas"))
    THEN Invoke("FirstValue", <<Get(Get(schema, "components"), "schemas")>>)
    ELSE schema

RECURSIVE Descend(_, _)
Descend(current, segments) ==
    IF segments = <<>> THEN current
    ELSE IF current = Null THEN Null
    ELSE LET segment == Head(segments) IN
         IF "i" \in DOMAIN segment
         THEN IF Get(current, "type") = Str("array") /\ Has(current, "items")
              THEN Invoke("Descend", <<Get(current, "items"), Tail(segments)>>)
              ELSE Null
         ELSE IF Get(current, "type") = Str("object") \/ Has(current, "properties")
              THEN LET props == GetD(current, "properties", EmptyObj) IN
                   IF Has(props, segment.k)
                   THEN Invoke("Descend", <<props.f[segment.k], Tail(segments)>>)
                   ELSE IF Has(current, "additionalProperties")
                        THEN Invoke("Descend", <<Get(current, "additionalProperties"), Tail(segments)>>)
                        ELSE Null
              ELSE Null

\* SchemaTraverser._traverse_to_path
_traverse_to_path(schema, path) ==
    LET root == Invoke("_get_root_schema", <<schema>>) IN
    IF path = RootPath THEN root
    ELSE IF ~Truthy(root) THEN Null
    ELSE Invoke("Descend", <<root, Invoke("_parse_path_segments", <<path>>)>>)

\* SchemaTraverser.get_schema_for_path.  The memo table _schema_cache belongs
\* to the traverser, which compare() constructs anew in every call, and the
\* schema it reads never changes during the call: a hit returns what the
\* traversal returns.
get_schema_for_path(tr, path) == Invoke("_traverse_to_path", <<tr.schema, path>>)

-----------------------------------------------------------------------------
(* FieldRules and GlobalRules *)

\* Largest magnitude of the numbers in the modelled documents
MaxNum == 3

Nums == -MaxNum..MaxNum

\* float(s) / int(float(s)) of a string: the number it spells, if any
SpellsNum(s) == \E n \in Nums : ToString(n) = s
NumOfStr(s) == CHOOSE n \in Nums : ToString(n) = s

\* The nearest float of the integer 2^53 + n (n small): every second integer
\* is a float there, a tie goes to the even mantissa.
RoundToEven(n) ==
    IF n % 2 = 0 THEN n ELSE IF n % 4 = 1 THEN n - 1 ELSE n + 1

\* float(value) in compare_numbers and safe_cast: "ValueError" for a string
\* that spells no number, "TypeError" for None and containers.
ToFloat(value) ==
    CASE value.t = "num" ->
            [exc |-> "none", hi |-> value.hi,
             n |-> IF value.hi = 0 \/ value.float THEN value.n
                   ELSE RoundToEven(value.n)]
      [] value.t = "bool" -> [exc |-> "none", hi |-> 0, n |-> IF value.b THEN 1 ELSE 0]
      [] value.t = "str" -> IF SpellsNum(value.s)
                            THEN [exc |-> "none", hi |-> 0, n |-> NumOfStr(value.s)]
                            ELSE [exc |-> "ValueError", hi |-> 0, n |-> 0]
      [] OTHER -> [exc |-> "TypeError", hi |-> 0, n |-> 0]

\* The float x as a JSON value, and int(x)
FloatOf(x) == [t |-> "num", n |-> x.n, hi |-> x.hi, float |-> TRUE]
IntOf(x) == [t |-> "num", n |-> x.n, hi |-> x.hi, float |-> FALSE]

\* abs(x - y) of two floats.  Between two floats on the same side of 2^53 the
\* difference is exact; across it, it is a float at or beyond 2^53 again.
FloatAbsDiff(x, y) ==
    IF x.hi = y.hi THEN [hi |-> 0, n |-> Abs(x.n - y.n)]
    ELSE LET d == IF x.hi > y.hi THEN x.n - y.n ELSE y.n - x.n
         IN [hi |-> Abs(x.hi - y.hi), n |-> IF d >= 0 THEN RoundToEven(d) ELSE d]

\* x <= y and x < y of two numbers (floats, or ints compared exactly)
NumLeq(x, y) == x.hi < y.hi \/ (x.hi = y.hi /\ x.n <= y.n)
NumLess(x, y) == x.hi < y.hi \/ (x.hi = y.hi /\ x.n < y.n)

\* Python's `==` on two scalars: numbers and bools by their value (1 == 1.0
\* == True), anything else by type and content.
NumVal(v) ==
    IF v.t = "bool" THEN [hi |-> 0, n |-> IF v.b THEN 1 ELSE 0]
    ELSE [hi |-> v.hi, n |-> v.n]
PyEq(a, b) ==
    IF a.t \in {"num", "bool"} /\ b.t \in {"num", "bool"} THEN NumVal(a) = NumVal(b)
    ELSE a = b

Strategies == {"strict", "ignore", "exists", "lenient"}
ArrayModes == {"strict", "unordered", "keyed"}
DuplicateHandlings == {"error", "first", "last", "merge"}
CastTypes == {"int", "float", "string", "boolean"}

\* FieldRules() with the dataclass defaults
DefaultRules ==
    [ strategy |-> "strict", alias |-> Null, precision |-> Null,
      case_insensitive |-> FALSE, trim_whitespace |-> FALSE, cast |-> Null,
      pattern |-> Null, datetime_format |-> Null, datetime_tolerance |-> Null,
      default |-> Null, has_default |-> FALSE, enum_map |-> Null,
      array_mode |-> "strict", array_key |-> Null, order_by |-> Null,
      ignore_extra_items |-> FALSE, ignore_missing_items |-> FALSE,
      array_subset |-> FALSE, duplicate_handling |-> "error",
      inherit_rules |-> FALSE, when_condition |-> Null, exc |-> "none" ]

\* `value in [e.value for e in Enum]` for a JSON value
InEnum(v, names) == IsStr(v) /\ v.s \in names

\* RuleExtractor.extract_field_rules.  A call without parent rules is a call
\* with DefaultRules, whose inherit_rules is false.  float(precision) raises
\* for a precision that is no number: exc is the exception of the call.
extract_field_rules(schema_node, parent_rules) ==
    LET rules == IF parent_rules.inherit_rules
                 THEN [DefaultRules EXCEPT
                         !.strategy = parent_rules.strategy,
                         !.case_insensitive = parent_rules.case_insensitive,
                         !.trim_whitespace = parent_rules.trim_whitespace,
                         !.inherit_rules = TRUE]
                 ELSE DefaultRules
        strategy == GetD(schema_node, "x-migration-strategy", Str("strict"))
        cast == Get(schema_node, "x-migration-cast")
        array_mode == GetD(schema_node, "x-migration-array-mode", Str("strict"))
        dup_handling == GetD(schema_node, "x-migration-duplicate-handling", Str("error"))
        precision == Get(schema_node, "x-migration-precision")
    IN [ strategy |-> IF InEnum(strategy, Strategies) THEN strategy.s ELSE rules.strategy,
         alias |-> Get(schema_node, "x-migration-alias"),
         precision |-> IF precision # Null /\ ToFloat(precision).exc = "none"
                       THEN FloatOf(ToFloat(precision)) ELSE Null,
         case_insensitive |->
            IF Has(schema_node, "x-migration-case-insensitive")
            THEN Truthy(Get(schema_node, "x-migration-case-insensitive"))
            ELSE rules.case_insensitive,
         trim_whitespace |->
            IF Has(schema_node, "x-migration-trim-whitespace")
            THEN Truthy(Get(schema_node, "x-migration-trim-whitespace"))
            ELSE rules.trim_whitespace,
         cast |-> IF Truthy(cast) /\ InEnum(cast, CastTypes) THEN cast ELSE Null,
         pattern |-> Get(schema_node, "x-migration-pattern"),
         datetime_format |-> Get(schema_node, "x-migration-datetime-format"),
         datetime_tolerance |-> Get(schema_node, "x-migration-datetime-tolerance"),
         default |-> Get(schema_node, "x-migration-default"),
         has_default |-> Has(schema_node, "x-migration-default"),
         enum_map |-> Get(schema_node, "x-migration-enum-map"),
         array_mode |-> IF InEnum(array_mode, ArrayModes) THEN array_mode.s
                        ELSE "strict",
         array_key |-> Get(schema_node, "x-migration-array-key"),
         order_by |-> Get(schema_node, "x-migration-order-by"),
         ignore_extra_items |-> Truthy(Get(schema_node, "x-migration-ignore-extra-items")),
         ignore_missing_items |-> Truthy(Get(schema_node, "x-migration-ignore-missing-items")),
         array_subset |-> Truthy(Get(schema_node, "x-migration-array-subset")),
         duplicate_handling |-> IF InEnum(dup_handling, DuplicateHandlings)
                                THEN dup_handling.s ELSE "error",
         inherit_rules |-> Truthy(Get(schema_node, "x-migration-inherit-rules")),
         when_condition |-> Get(schema_node, "x-migration-when"),
         exc |-> IF precision # Null THEN ToFloat(precision).exc ELSE "none" ]

\* SchemaTraverser.get_rules_for_path
get_rules_for_path(tr, path, parent_rules) ==
    LET schema_node == Invoke("get_schema_for_path", <<tr, path>>) IN
    IF Truthy(schema_node)
    THEN Invoke("extract_field_rules", <<schema_node, parent_rules>>)
    ELSE DefaultRules

\* RuleExtractor.extract_global_rules
extract_global_rules(schema) ==
    LET root == Invoke("_get_root_schema", <<schema>>) IN
    [ global_ignores |-> GetD(root, "x-migration-global-ignores", EmptyArr),
      allow_null_as_missing |-> Truthy(Get(root, "x-migration-allow-null-as-missing")),
      empty_string_as_null |-> Truthy(Get(root, "x-migration-empty-string-as-null")) ]

-----------------------------------------------------------------------------
(* Stage 1: SchemaResolver *)

\* str.startswith / str.split on the modelled $ref strings: is the reference
\* internal ('#/' prefix), and the decoded components of its JSON pointer.
RefTab ==
    [ r \in { "#/definitions/Main", "#/definitions/Other", "#/definitions/Missing",
              "http://example.com/s.json", "other.json#/definitions/Main" } |->
        CASE r = "#/definitions/Main" ->
                [http |-> FALSE, internal |-> TRUE, parts |-> <<"definitions", "Main">>]
          [] r = "#/definitions/Other" ->
                [http |-> FALSE, internal |-> TRUE, parts |-> <<"definitions", "Other">>]
          [] r = "#/definitions/Missing" ->
                [http |-> FALSE, internal |-> TRUE, parts |-> <<"definitions", "Missing">>]
          [] r = "http://example.com/s.json" ->
                [http |-> TRUE, internal |-> FALSE, parts |-> <<>>]
          [] r = "other.json#/definitions/Main" ->
                [http |-> FALSE, internal |-> FALSE, parts |-> <<>>] ]

\* Outcome of a resolver step: the exception raised ("none" if it returned),
\* the value returned, the resolution stack afterwards, and the locations of
\* the returned tree whose containers are the caller's own objects.
ResolveOk(v, stack, shared) ==
    [exc |-> "none", v |-> v, stack |-> stack, shared |-> shared]
ResolveRaise(exc, stack) ==
    [exc |-> exc, v |-> Null, stack |-> stack, shared |-> {}]

\* The walk along the pointer in _resolve_ref (schema.py:73-84)
RECURSIVE WalkPointer(_, _)
WalkPointer(resolved, parts) ==
    IF parts = <<>> THEN [found |-> TRUE, v |-> resolved]
    ELSE IF Has(resolved, Head(parts))
         THEN Invoke("WalkPointer", <<resolved.f[Head(parts)], Tail(parts)>>)
         ELSE [found |-> FALSE, v |-> Null]

InSeq(x, s) == \E j \in 1..Len(s) : s[j] = x
Pop(s) == SubSeq(s, 1, Len(s) - 1)

RECURSIVE _resolve_node(_, _, _, _, _)
RECURSIVE _resolve_ref(_, _, _, _)
RECURSIVE ResolveDict(_, _, _, _, _, _)
RECURSIVE ResolveList(_, _, _, _, _, _)

\* _resolve_ref without its finally clause, the reference left on the
\* resolution stack: the fault C27 excludes
_resolve_ref_unpopped(r, ref, depth, stack) ==
    IF RefTab[ref.s].http THEN ResolveRaise("ExternalRefError", stack)
    ELSE IF ~RefTab[ref.s].internal THEN ResolveRaise("ExternalRefError", stack)
    ELSE IF InSeq(ref.s, stack) THEN ResolveRaise("CircularRefError", stack)
    ELSE LET pushed == Append(stack, ref.s)
             target == Invoke("WalkPointer", <<r.schema, RefTab[ref.s].parts>>)
         IN IF ~target.found
            THEN ResolveRaise("SchemaParseError", pushed)
            ELSE LET sub == Invoke("_resolve_node", <<r, target.v, depth + 1, pushed, <<>>>>)
                 IN [sub EXCEPT !.shared = {}]

\* SchemaResolver._resolve_ref.  r is the resolver: [schema, max_depth].
_resolve_ref(r, ref, depth, stack) ==
    IF RefTab[ref.s].http THEN ResolveRaise("ExternalRefError", stack)
    ELSE IF ~RefTab[ref.s].internal THEN ResolveRaise("ExternalRefError", stack)
    ELSE IF InSeq(ref.s, stack) THEN ResolveRaise("CircularRefError", stack)
    ELSE LET pushed == Append(stack, ref.s)
             target == Invoke("WalkPointer", <<r.schema, RefTab[ref.s].parts>>)
         IN IF ~target.found
            THEN ResolveRaise("SchemaParseError", Pop(pushed))
            ELSE \* deepcopy(resolved): nothing below is the caller's object
                 LET sub == Invoke("_resolve_node", <<r, target.v, depth + 1, pushed, <<>>>>)
                 IN [sub EXCEPT !.stack = Pop(sub.stack), !.shared = {}]

\* The loop over node.items() in _resolve_node (schema.py:45-48)
ResolveDict(r, node, keys, depth, loc, acc) ==
    IF keys = <<>> THEN acc
    ELSE LET key == Head(keys)
             sub == Invoke("_resolve_node", <<r, node.f[key], depth + 1, acc.stack,
                                  Append(loc, KeySeg(key))>>)
         IN IF sub.exc # "none" THEN sub
            ELSE Invoke("ResolveDict", <<r, node, Tail(keys), depth, loc,
                     ResolveOk(Put(acc.v, key, sub.v), sub.stack,
                               acc.shared \cup sub.shared)>>)

\* The list comprehension in _resolve_node (schema.py:50-51)
ResolveList(r, node, j, depth, loc, acc) ==
    IF j > Len(node.e) THEN acc
    ELSE LET sub == Invoke("_resolve_node", <<r, node.e[j], depth + 1, acc.stack,
                                  Append(loc, IdxSeg(j - 1))>>)
         IN IF sub.exc # "none" THEN sub
            ELSE Invoke("ResolveList", <<r, node, j + 1, depth, loc,
                     ResolveOk(Arr(Append(acc.v.e, sub.v)), sub.stack,
                               acc.shared \cup sub.shared)>>)

\* SchemaResolver._resolve_node.  Beyond max_depth the node itself is returned:
\* the caller's object, not a copy.
_resolve_node(r, node, depth, stack, loc) ==
    IF depth > r.max_depth
    THEN ResolveOk(node, stack, IF node.t \in {"obj", "arr"} THEN {loc} ELSE {})
    ELSE IF IsObj(node)
         THEN IF Has(node, "$ref")
              THEN Invoke("_resolve_ref", <<r, Get(node, "$ref"), depth, stack>>)
              ELSE Invoke("ResolveDict", <<r, node, KeysOf(node), depth, loc,
                               ResolveOk(EmptyObj, stack, {})>>)
         ELSE IF IsArr(node)
              THEN Invoke("ResolveList", <<r, node, 1, depth, loc, ResolveOk(EmptyArr, stack, {})>>)
              ELSE ResolveOk(node, stack, {})

\* SchemaResolver.resolve, on a resolver whose _resolution_stack is empty
resolve(r) == Invoke("_resolve_node", <<r, r.schema, 0, <<>>, <<>>>>)

-----------------------------------------------------------------------------
(* Stage 2: Normalizer *)

\* `'..' in path`, path.split('..') and lstrip('.') on the modelled patterns:
\* the field a recursive-descent pattern names.
IgnoreTab ==
    [ pat \in {"$..updatedAt", "$..b"} |->
        IF pat = "$..updatedAt" THEN [recursive |-> TRUE, field |-> "updatedAt"]
        ELSE [recursive |-> TRUE, field |-> "b"] ]

\* Normalizer._delete_field_recursive (deletes in place)
RECURSIVE _delete_field_recursive(_, _)
_delete_field_recursive(data, field) ==
    IF IsObj(data)
    THEN Obj([key \in DOMAIN data.f \ {field} |->
                Invoke("_delete_field_recursive", <<data.f[key], field>>)])
    ELSE IF IsArr(data)
         THEN Arr([j \in 1..Len(data.e) |-> Invoke("_delete_field_recursive", <<data.e[j], field>>)])
         ELSE data

\* Normalizer._delete_recursive
_delete_recursive(data, pattern) ==
    Invoke("_delete_field_recursive", <<data, IgnoreTab[pattern].field>>)

\* Normalizer._delete_jsonpath.  Only recursive-descent patterns are modelled;
\* the others go to the jsonpath library.
_delete_jsonpath(data, path) ==
    IF IgnoreTab[path].recursive THEN Invoke("_delete_recursive", <<data, path>>) ELSE data

RECURSIVE DeleteEach(_, _, _)
DeleteEach(data, patterns, j) ==
    IF j > Len(patterns) THEN data
    ELSE Invoke("DeleteEach", <<Invoke("_delete_jsonpath", <<data, patterns[j].s>>), patterns, j + 1>>)

\* Normalizer._apply_global_ignores
_apply_global_ignores(gr, data) ==
    IF ~Truthy(gr.global_ignores) THEN data
    ELSE Invoke("DeleteEach", <<data, gr.global_ignores.e, 1>>)

\* The alias search of _apply_aliases (normalizer.py:155-164): the first schema
\* property, in dict order, whose x-migration-alias is the key.
RECURSIVE FirstAlias(_, _, _)
FirstAlias(props, names, key) ==
    IF names = <<>> THEN key
    ELSE IF Get(props.f[Head(names)], "x-migration-alias") = Str(key)
         THEN Head(names)
         ELSE Invoke("FirstAlias", <<props, Tail(names), key>>)

AliasKey(tr, path, key) ==
    LET schema_node == Invoke("get_schema_for_path", <<tr, Append(path, KeySeg(key))>>)
        parent_schema == Invoke("get_schema_for_path", <<tr, path>>)
    IN IF schema_node = Null
       THEN IF Truthy(parent_schema) /\ Has(parent_schema, "properties")
            THEN Invoke("FirstAlias", <<Get(parent_schema, "properties"),
                            KeysOf(Get(parent_schema, "properties")), key>>)
            ELSE key
       ELSE key

\* Last element of a non-empty sequence
Last(s) == s[Len(s)]

\* Normalizer._apply_aliases.  result[new_key] = ... in dict order: of two keys
\* renamed to the same name the later one stays.
RECURSIVE _apply_aliases(_, _, _)
_apply_aliases(tr, data, path) ==
    IF IsArr(data)
    THEN Arr([j \in 1..Len(data.e) |->
                Invoke("_apply_aliases", <<tr, data.e[j], Append(path, IdxSeg(j - 1))>>)])
    ELSE IF ~IsObj(data) THEN data
    ELSE LET keys == KeysOf(data)
             Source(new_key) ==
                Last(SelectSeq(keys, LAMBDA key : Invoke("AliasKey", <<tr, path, key>>) = new_key))
         IN Obj([new_key \in {Invoke("AliasKey", <<tr, path, key>>) : key \in DOMAIN data.f} |->
                   Invoke("_apply_aliases", <<tr, data.f[Source(new_key)],
                                  Append(path, KeySeg(Source(new_key)))>>)])

\* Normalizer._normalize_nulls
RECURSIVE _normalize_nulls(_)
_normalize_nulls(data) ==
    IF IsObj(data)
    THEN Obj([key \in {x \in DOMAIN data.f : data.f[x] # Null} |->
                Invoke("_normalize_nulls", <<data.f[key]>>)])
    ELSE IF IsArr(data)
         THEN Arr([j \in 1..Len(data.e) |-> Invoke("_normalize_nulls", <<data.e[j]>>)])
         ELSE data

\* Normalizer._normalize_empty_strings
RECURSIVE _normalize_empty_strings(_)
_normalize_empty_strings(data) ==
    IF IsObj(data)
    THEN Obj([key \in DOMAIN data.f |-> Invoke("_normalize_empty_strings", <<data.f[key]>>)])
    ELSE IF IsArr(data)
         THEN Arr([j \in 1..Len(data.e) |-> Invoke("_normalize_empty_strings", <<data.e[j]>>)])
         ELSE IF data = Str("") THEN Null ELSE data

\* The properties of schema_node whose default _apply_defaults inserts into
\* the dict data (normalizer.py:205-209)
MissingDefaults(schema_node, data) ==
    IF Has(schema_node, "properties")
    THEN {prop_name \in DOMAIN Get(schema_node, "properties").f :
            /\ prop_name \notin DOMAIN data.f
            /\ Has(Get(schema_node, "properties").f[prop_name], "x-migration-default")}
    ELSE {}

InjectDefaults(schema_node, data) ==
    Obj([key \in DOMAIN data.f \cup Invoke("MissingDefaults", <<schema_node, data>>) |->
            IF key \in DOMAIN data.f THEN data.f[key]
            ELSE Get(Get(schema_node, "properties").f[key], "x-migration-default")])

\* Normalizer._apply_defaults: the value returned
RECURSIVE _apply_defaults(_, _, _)
_apply_defaults(tr, data, path) ==
    LET schema_node == Invoke("get_schema_for_path", <<tr, path>>) IN
    IF schema_node = Null THEN data
    ELSE IF IsObj(data)
         THEN LET injected == Invoke("InjectDefaults", <<schema_node, data>>) IN
              Obj([key \in DOMAIN injected.f |->
                     Invoke("_apply_defaults", <<tr, injected.f[key], Append(path, KeySeg(key))>>)])
         ELSE IF IsArr(data)
              THEN Arr([j \in 1..Len(data.e) |->
                          Invoke("_apply_defaults", <<tr, data.e[j], Append(path, IdxSeg(j - 1))>>)])
              ELSE data

\* Where _traverse_to_path finds the node of a path inside the schema: the
\* steps from the schema's top to the node.  Used for paths that have a node.
RootLoc(schema) ==
    IF Has(schema, "components") /\ Has(Get(schema, "components"), "schemas")
       /\ Truthy(Get(Get(schema, "components"), "schemas"))
    THEN <<KeySeg("components"), KeySeg("schemas"),
           KeySeg(Head(KeysOf(Get(Get(schema, "components"), "schemas"))))>>
    ELSE <<>>

RECURSIVE DescendLoc(_, _, _)
DescendLoc(current, segments, loc) ==
    IF segments = <<>> THEN loc
    ELSE LET segment == Head(segments) IN
         IF "i" \in DOMAIN segment
         THEN Invoke("DescendLoc", <<Get(current, "items"), Tail(segments),
                         Append(loc, KeySeg("items"))>>)
         ELSE IF Has(GetD(current, "properties", EmptyObj), segment.k)
              THEN Invoke("DescendLoc", <<Get(current, "properties").f[segment.k], Tail(segments),
                              loc \o <<KeySeg("properties"), segment>>>>)
              ELSE Invoke("DescendLoc", <<Get(current, "additionalProperties"), Tail(segments),
                              Append(loc, KeySeg("additionalProperties"))>>)

SchemaLoc(tr, path) ==
    Invoke("DescendLoc", <<Invoke("_get_root_schema", <<tr.schema>>),
                           Invoke("_parse_path_segments", <<path>>),
                           Invoke("RootLoc", <<tr.schema>>)>>)

\* The assignments `data[prop_name] = prop_schema['x-migration-default']`
\* put the schema's own default object into the document, and the recursion
\* into it (normalizer.py:213-215) injects the defaults of its missing
\* properties in place.  SchemaWrites is the set of [loc, v]: the default at
\* schema location loc holds v when _apply_defaults(data, path) returns.
RECURSIVE SchemaWrites(_, _, _)
SchemaWrites(tr, data, path) ==
    LET schema_node == Invoke("get_schema_for_path", <<tr, path>>) IN
    IF schema_node = Null THEN {}
    ELSE IF IsObj(data)
         THEN LET injected == Invoke("InjectDefaults", <<schema_node, data>>) IN
              { [loc |-> Invoke("SchemaLoc", <<tr, path>>) \o <<KeySeg("properties"), KeySeg(key),
                                                   KeySeg("x-migration-default")>>,
                 v |-> Invoke("_apply_defaults", <<tr, injected.f[key], Append(path, KeySeg(key))>>)] :
                   key \in Invoke("MissingDefaults", <<schema_node, data>>) }
              \cup UNION { Invoke("SchemaWrites", <<tr, injected.f[key], Append(path, KeySeg(key))>>) :
                             key \in DOMAIN injected.f }
         ELSE IF IsArr(data)
              THEN UNION { Invoke("SchemaWrites", <<tr, data.e[j], Append(path, IdxSeg(j - 1))>>) :
                             j \in 1..Len(data.e) }
              ELSE {}

\* The value at a location of a schema, and the schema with that value replaced
RECURSIVE WriteAt(_, _, _)
WriteAt(schema, loc, v) ==
    IF loc = <<>> THEN v
    ELSE IF "k" \in DOMAIN Head(loc)
         THEN Put(schema, Head(loc).k, Invoke("WriteAt", <<schema.f[Head(loc).k], Tail(loc), v>>))
         ELSE Arr([schema.e EXCEPT ![Head(loc).i + 1] = Invoke("WriteAt", <<@, Tail(loc), v>>)])

RECURSIVE ReadAt(_, _)
ReadAt(schema, loc) ==
    IF loc = <<>> THEN schema
    ELSE IF "k" \in DOMAIN Head(loc)
         THEN ReadAt(schema.f[Head(loc).k], Tail(loc))
         ELSE ReadAt(schema.e[Head(loc).i + 1], Tail(loc))

IsPrefix(s1, s2) == Len(s1) <= Len(s2) /\ SubSeq(s2, 1, Len(s1)) = s1

\* Apply to a schema the writes that land in objects which are part of it.
\* Writes to one location carry one value, and a write below another write's
\* location is contained in that write's value: shortest locations last.
RECURSIVE ApplyWrites(_, _)
ApplyWrites(schema, writes) ==
    IF writes = {} THEN schema
    ELSE LET w == CHOOSE x \in writes : \A y \in writes : Len(y.loc) <= Len(x.loc)
         IN Invoke("ApplyWrites", <<Invoke("WriteAt", <<schema, w.loc, w.v>>), writes \ {w}>>)

\* Normalizer._apply_enum_mapping
RECURSIVE _apply_enum_mapping(_, _, _)
_apply_enum_mapping(tr, data, path) ==
    LET schema_node == Invoke("get_schema_for_path", <<tr, path>>) IN
    IF IsObj(data)
    THEN Obj([key \in DOMAIN data.f |->
                Invoke("_apply_enum_mapping", <<tr, data.f[key], Append(path, KeySeg(key))>>)])
    ELSE IF IsArr(data)
         THEN Arr([j \in 1..Len(data.e) |->
                     Invoke("_apply_enum_mapping", <<tr, data.e[j], Append(path, IdxSeg(j - 1))>>)])
         ELSE IF Truthy(schema_node)
              THEN LET enum_map == Get(schema_node, "x-migration-enum-map") IN
                   IF Truthy(enum_map) /\ IsStr(data) /\ Has(enum_map, data.s)
                   THEN enum_map.f[data.s]
                   ELSE data
              ELSE data

\* field.startswith('-') and field[1:] on the modelled order-by fields
OrderTab ==
    [ field \in {"a", "-a"} |->
        IF field = "a" THEN [descending |-> FALSE, field_name |-> "a"]
        ELSE [descending |-> TRUE, field_name |-> "a"] ]

\* sort_key of _sort_array for an order-by of one field: the value compared.
\* None counts 0, a bool counts as the int it is, numbers are negated when
\* descending, strings are not.
sort_key(item, field) ==
    LET descending == OrderTab[field].descending
        value == Get(item, OrderTab[field].field_name)
    IN CASE value.t = "null" -> Num(0)
         [] value.t = "bool" ->
                Num(IF descending THEN (IF value.b THEN -1 ELSE 0)
                    ELSE (IF value.b THEN 1 ELSE 0))
         [] value.t = "num" ->
                IF descending THEN [value EXCEPT !.n = -value.n, !.hi = -value.hi]
                ELSE value
         [] value.t = "str" -> value

\* `<` on two strings: their order in StrOrder
StrOrder == << "", " A ", " a ", "1", "A", "PAID", "a", "paid", "x", "y" >>
StrIndex(x) == CHOOSE j \in 1..Len(StrOrder) : StrOrder[j] = x
KeyLess(k1, k2) ==
    IF IsNum(k1) THEN NumLess(k1, k2) ELSE StrIndex(k1.s) < StrIndex(k2.s)

\* sorted(): stable, so an item goes behind the items it is not less than
RECURSIVE InsertSorted(_, _, _)
InsertSorted(sorted, item, field) ==
    IF sorted = <<>> THEN <<item>>
    ELSE IF KeyLess(Invoke("sort_key", <<item, field>>), Invoke("sort_key", <<Last(sorted), field>>))
         THEN Append(Invoke("InsertSorted", <<Pop(sorted), item, field>>), Last(sorted))
         ELSE Append(sorted, item)

RECURSIVE Sorted(_, _, _)
Sorted(array, j, field) ==
    IF j = 0 THEN <<>>
    ELSE Invoke("InsertSorted", <<Invoke("Sorted", <<array, j - 1, field>>), array[j], field>>)

\* Normalizer._sort_array, for an order-by list of one field.  Comparing a
\* number with a string raises TypeError inside sorted(): the array is
\* returned unsorted.
_sort_array(array, order_by) ==
    LET field == order_by.e[1].s
        keys == {Invoke("sort_key", <<array.e[j], field>>) : j \in 1..Len(array.e)}
    IN IF array.e = <<>> \/ \E j \in 1..Len(array.e) : ~IsObj(array.e[j])
       THEN array
       ELSE IF \E k1, k2 \in keys : k1.t # k2.t
            THEN array
            ELSE Arr(Invoke("Sorted", <<array.e, Len(array.e), field>>))

\* Normalizer._apply_array_sorting
RECURSIVE _apply_array_sorting(_, _, _)
_apply_array_sorting(tr, data, path) ==
    LET schema_node == Invoke("get_schema_for_path", <<tr, path>>) IN
    IF IsArr(data)
    THEN LET order_by == IF Truthy(schema_node)
                         THEN Get(schema_node, "x-migration-order-by")
                         ELSE Null
             sorted == IF Truthy(order_by) THEN Invoke("_sort_array", <<data, order_by>>) ELSE data
         IN Arr([j \in 1..Len(sorted.e) |->
                   Invoke("_apply_array_sorting", <<tr, sorted.e[j], Append(path, IdxSeg(j - 1))>>)])
    ELSE IF IsObj(data)
         THEN Obj([k \in DOMAIN data.f |->
                     Invoke("_apply_array_sorting", <<tr, data.f[k], Append(path, KeySeg(k))>>)])
         ELSE data

-----------------------------------------------------------------------------
(* Stage 3: Masker *)

\* Masker._was_ignored
_was_ignored(tr, path) == Invoke("get_rules_for_path", <<tr, path, DefaultRules>>).strategy = "ignore"

RECURSIVE SumOver(_, _)
SumOver(f, keys) == IF keys = <<>> THEN 0 ELSE f[Head(keys)] + SumOver(f, Tail(keys))

\* The exception that ends a loop over children: the first one in the order of
\* the loop
RECURSIVE FirstExc(_, _)
FirstExc(f, keys) ==
    IF keys = <<>> THEN "none"
    ELSE IF f[Head(keys)] # "none" THEN f[Head(keys)]
    ELSE FirstExc(f, Tail(keys))

\* Masker._mask_recursive: the value returned (None for an ignored field), the
\* number of times ignored_count was incremented, and the exception raised.
RECURSIVE _mask_recursive(_, _, _, _)
_mask_recursive(tr, data, path, parent_rules) ==
    LET rules == Invoke("get_rules_for_path", <<tr, path, parent_rules>>) IN
    IF rules.exc # "none" THEN [v |-> Null, n |-> 0, exc |-> rules.exc]
    ELSE IF rules.strategy = "ignore" THEN [v |-> Null, n |-> 1, exc |-> "none"]
    ELSE IF IsObj(data)
         THEN LET masked == [key \in DOMAIN data.f |->
                               Invoke("_mask_recursive", <<tr, data.f[key],
                                               Append(path, KeySeg(key)), rules>>)]
                  raised == FirstExc([key \in DOMAIN data.f |-> masked[key].exc],
                                     KeysOf(data))
                  kept == {key \in DOMAIN data.f :
                             \/ masked[key].v # Null
                             \/ ~Invoke("_was_ignored", <<tr, Append(path, KeySeg(key))>>)}
              IN IF raised # "none" THEN [v |-> Null, n |-> 0, exc |-> raised]
                 ELSE
                 [v |-> Obj([key \in kept |-> masked[key].v]),
                  n |-> SumOver([key \in DOMAIN data.f |-> masked[key].n], KeysOf(data)),
                  exc |-> "none"]
         ELSE IF IsArr(data)
              THEN LET masked == [j \in 1..Len(data.e) |->
                                    Invoke("_mask_recursive", <<tr, data.e[j],
                                                    Append(path, IdxSeg(j - 1)), rules>>)]
                       raised == FirstExc([j \in 1..Len(data.e) |-> masked[j].exc],
                                          [j \in 1..Len(data.e) |-> j])
                   IN IF raised # "none" THEN [v |-> Null, n |-> 0, exc |-> raised]
                      ELSE
                      [v |-> Arr([j \in 1..Len(data.e) |-> masked[j].v]),
                       n |-> SumOver([j \in 1..Len(data.e) |-> masked[j].n],
                                     [j \in 1..Len(data.e) |-> j]),
                       exc |-> "none"]
              ELSE [v |-> data, n |-> 0, exc |-> "none"]

\* Masker.mask: ignored_count starts at 0 in every call
mask(tr, old_json, new_json) ==
    LET o == Invoke("_mask_recursive", <<tr, old_json, RootPath, DefaultRules>>)
        n == Invoke("_mask_recursive", <<tr, new_json, RootPath, DefaultRules>>)
    IN [old |-> o.v, new |-> n.v, ignored_count |-> o.n + n.n,
        exc |-> IF o.exc # "none" THEN o.exc ELSE n.exc]

-----------------------------------------------------------------------------
(* utils.py and comparators.py *)

\* str(value) of a scalar
StrOf(value) ==
    CASE value.t = "str" -> value.s
      [] value.t = "num" ->
            (IF value.hi = 0 THEN ToString(value.n)
             ELSE "900719925474099" \o ToString(2 + value.n))
            \o (IF value.float THEN ".0" ELSE "")
      [] value = EmptyArr -> "[]"
      [] value = EmptyObj -> "{}"
      [] value.t = "bool" -> IF value.b THEN "True" ELSE "False"
      [] value.t = "null" -> "None"

\* utils.safe_cast
safe_cast(value, cast_type) ==
    IF value = Null THEN Null
    ELSE CASE cast_type = "int" ->
                IF ToFloat(value).exc = "none" THEN IntOf(ToFloat(value)) ELSE value
           [] cast_type = "float" ->
                IF ToFloat(value).exc = "none" THEN FloatOf(ToFloat(value)) ELSE value
           [] cast_type = "string" -> Str(StrOf(value))
           [] cast_type = "boolean" ->
                IF IsBool(value) THEN value
                ELSE IF IsStr(value)
                     THEN Bool(Lower(value.s) \in {"true", "1", "yes", "on"})
                     ELSE Bool(Truthy(value))
           [] OTHER -> value

\* utils.get_type_name
get_type_name(value) ==
    CASE value.t = "null" -> "null"
      [] value.t = "bool" -> "boolean"
      [] value.t = "num" -> IF value.float THEN "number" ELSE "integer"
      [] value.t = "str" -> "string"
      [] value.t = "arr" -> "array"
      [] value.t = "obj" -> "object"

\* A comparator's result: (is_match, message), or the exception it raised.
\* A message is kept as its template and the two values printed into it.
Msg(kind, a, b) == [kind |-> kind, a |-> a, b |-> b]
NoMsg == Msg("", Null, Null)
CmpOk == [exc |-> "none", is_match |-> TRUE, message |-> NoMsg]
CmpNo(message) == [exc |-> "none", is_match |-> FALSE, message |-> message]
CmpRaise(exc) == [exc |-> exc, is_match |-> FALSE, message |-> NoMsg]

\* compare_numbers with the tolerance test turned round: the fault C7 excludes
compare_numbers_reversed(old, new, precision) ==
    IF ToFloat(old).exc # "none" \/ ToFloat(new).exc # "none"
    THEN CmpNo(Msg("Cannot convert to number", old, new))
    ELSE LET diff == FloatAbsDiff(ToFloat(old), ToFloat(new))
         IN IF precision # Null
            THEN IF NumLeq(ToFloat(precision), diff) THEN CmpOk
                 ELSE CmpNo(Msg("Value difference exceeds precision tolerance",
                                FloatOf(diff), precision))
            ELSE IF diff.n = 0 /\ diff.hi = 0 THEN CmpOk
                 ELSE CmpNo(Msg("Values differ", old, new))

\* comparators.compare_numbers.  `diff <= precision` raises TypeError when
\* precision is a string; the engine passes the float of extract_field_rules.
compare_numbers(old, new, precision) ==
    IF ToFloat(old).exc # "none" \/ ToFloat(new).exc # "none"
    THEN CmpNo(Msg("Cannot convert to number", old, new))
    ELSE LET old_float == ToFloat(old)
             new_float == ToFloat(new)
             diff == FloatAbsDiff(old_float, new_float)
         IN IF precision # Null
            THEN IF ToFloat(precision).exc # "none" \/ IsStr(precision)
                 THEN CmpRaise("TypeError")
                 ELSE IF NumLeq(diff, ToFloat(precision)) THEN CmpOk
                      ELSE CmpNo(Msg("Value difference exceeds precision tolerance",
                                     FloatOf(diff), precision))
            ELSE IF old_float = new_float THEN CmpOk
                 ELSE CmpNo(Msg("Values differ", old, new))

\* re.compile(pattern).match(s) on the modelled patterns: "[" does not compile
PatternTab ==
    [ pattern \in {"^a$", "["} |->
        IF pattern = "^a$" THEN [valid |-> TRUE, matches |-> {"a"}]
        ELSE [valid |-> FALSE, matches |-> {}] ]

\* comparators.compare_strings
compare_strings(old, new, rules) ==
    LET old_s0 == IF old # Null THEN StrOf(old) ELSE ""
        new_s0 == IF new # Null THEN StrOf(new) ELSE ""
        old_s1 == IF rules.trim_whitespace THEN Strip(old_s0) ELSE old_s0
        new_s1 == IF rules.trim_whitespace THEN Strip(new_s0) ELSE new_s0
        old_str == IF rules.case_insensitive THEN Lower(old_s1) ELSE old_s1
        new_str == IF rules.case_insensitive THEN Lower(new_s1) ELSE new_s1
        exact == IF old_str = new_str THEN CmpOk
                 ELSE CmpNo(Msg("Values differ", old, new))
    IN IF Truthy(rules.pattern)
       THEN IF PatternTab[rules.pattern.s].valid
            THEN LET old_matches == old_str \in PatternTab[rules.pattern.s].matches
                     new_matches == new_str \in PatternTab[rules.pattern.s].matches
                 IN IF ~old_matches /\ ~new_matches
                    THEN CmpNo(Msg("Neither value matches pattern", rules.pattern, Null))
                    ELSE IF ~old_matches
                         THEN CmpNo(Msg("Old value doesn't match pattern", old, rules.pattern))
                         ELSE IF ~new_matches
                              THEN CmpNo(Msg("New value doesn't match pattern",
                                             new, rules.pattern))
                              ELSE CmpOk
            ELSE exact
       ELSE exact

\* strptime on the modelled datetime strings: seconds since 2024-01-01T00:00:00
DatetimeTab ==
    [ fmt \in {"ISO8601"} |->
        [ value \in {"2024-01-01T00:00:00Z", "2024-01-01T00:00:03Z",
                     "2024-01-01T00:01:00Z"} |->
            CASE value = "2024-01-01T00:00:00Z" -> 0
              [] value = "2024-01-01T00:00:03Z" -> 3
              [] value = "2024-01-01T00:01:00Z" -> 60 ] ]

\* comparators.parse_datetime of str(value)
parse_datetime(value, fmt) ==
    IF IsStr(value) /\ value.s \in DOMAIN DatetimeTab[fmt.s]
    THEN [exc |-> "none", seconds |-> DatetimeTab[fmt.s][value.s]]
    ELSE [exc |-> "ValueError", seconds |-> 0]

\* The regex of parse_duration on the modelled duration strings: seconds
DurationTab ==
    [ d \in {"5s", "1m", "bogus"} |->
        CASE d = "5s" -> [valid |-> TRUE, seconds |-> 5]
          [] d = "1m" -> [valid |-> TRUE, seconds |-> 60]
          [] d = "bogus" -> [valid |-> FALSE, seconds |-> 0] ]

\* utils.parse_duration.  A duration that is no string has no strip().
parse_duration(duration_str) ==
    IF ~Truthy(duration_str) THEN [exc |-> "none", seconds |-> 0]
    ELSE IF ~IsStr(duration_str) THEN [exc |-> "AttributeError", seconds |-> 0]
    ELSE IF DurationTab[duration_str.s].valid
         THEN [exc |-> "none", seconds |-> DurationTab[duration_str.s].seconds]
         ELSE [exc |-> "ValueError", seconds |-> 0]

\* comparators.compare_datetime
compare_datetime(old, new, fmt, tolerance) ==
    LET old_dt == Invoke("parse_datetime", <<old, fmt>>)
        new_dt == Invoke("parse_datetime", <<new, fmt>>)
    IN IF old_dt.exc # "none" \/ new_dt.exc # "none"
       THEN CmpNo(Msg("Cannot parse datetime", old, new))
       ELSE IF Truthy(tolerance)
            THEN LET tolerance_td == Invoke("parse_duration", <<tolerance>>)
                     diff == Abs(old_dt.seconds - new_dt.seconds)
                 IN IF tolerance_td.exc = "ValueError"
                    THEN CmpNo(Msg("Invalid tolerance format", tolerance, Null))
                    ELSE IF tolerance_td.exc # "none" THEN CmpRaise(tolerance_td.exc)
                    ELSE IF diff <= tolerance_td.seconds THEN CmpOk
                    ELSE CmpNo(Msg("Time difference exceeds tolerance", Num(diff), tolerance))
            ELSE IF old_dt.seconds = new_dt.seconds THEN CmpOk
                 ELSE CmpNo(Msg("Datetimes differ", old, new))

\* comparators.compare_with_rules
compare_with_rules(old_in, new_in, rules) ==
    LET old_c == IF Truthy(rules.cast) THEN Invoke("safe_cast", <<old_in, rules.cast.s>>) ELSE old_in
        new_c == IF Truthy(rules.cast) THEN Invoke("safe_cast", <<new_in, rules.cast.s>>) ELSE new_in
        old_v == IF old_c = Null /\ rules.has_default THEN rules.default ELSE old_c
        new_v == IF new_c = Null /\ rules.has_default THEN rules.default ELSE new_c
    IN IF old_c = Null /\ new_c = Null THEN CmpOk
       ELSE IF old_c = Null /\ ~rules.has_default
            THEN CmpNo(Msg("Old value is null", new_c, Null))
       ELSE IF new_c = Null /\ ~rules.has_default
            THEN CmpNo(Msg("New value is null", old_v, Null))
       ELSE IF Truthy(rules.datetime_format)
            THEN Invoke("compare_datetime", <<old_v, new_v, rules.datetime_format,
                                  rules.datetime_tolerance>>)
       ELSE IF rules.precision # Null
            THEN Invoke("compare_numbers", <<old_v, new_v, rules.precision>>)
       ELSE IF old_v.t \in {"num", "bool"} /\ new_v.t \in {"num", "bool"}
            THEN Invoke("compare_numbers", <<old_v, new_v, Null>>)
       ELSE IF IsStr(old_v) \/ IsStr(new_v)
            THEN Invoke("compare_strings", <<old_v, new_v, rules>>)
       ELSE IF old_v = new_v THEN CmpOk
            ELSE CmpNo(Msg("Values differ", old_v, new_v))

\* The parse of a condition string in evaluate_condition (jsonpath_utils.py:
\* 243-274): the operator, the keys of the path and the expected value.
WhenTab ==
    [ condition \in {"$.old.tier == 'PAID'", "$.tier == 'PAID'", "$.old.a > 1"} |->
        CASE condition = "$.old.tier == 'PAID'" ->
                [operator |-> "==", path |-> <<"old", "tier">>, expected |-> Str("PAID")]
          [] condition = "$.tier == 'PAID'" ->
                [operator |-> "==", path |-> <<"tier">>, expected |-> Str("PAID")]
          [] condition = "$.old.a > 1" ->
                [operator |-> ">", path |-> <<"old", "a">>, expected |-> Num(1)] ]

\* JSONPathMatcher.find_values for a path of child steps: the values found
RECURSIVE find_values(_, _)
find_values(data, path) ==
    IF path = <<>> THEN <<data>>
    ELSE IF Has(data, Head(path)) THEN Invoke("find_values", <<data.f[Head(path)], Tail(path)>>)
         ELSE <<>>

\* jsonpath_utils.evaluate_condition
evaluate_condition(data, condition) ==
    IF ~Truthy(condition) THEN TRUE
    ELSE LET c == WhenTab[condition.s]
             values == Invoke("find_values", <<data, c.path>>)
             actual == values[1]
         IN IF values = <<>> THEN FALSE
            ELSE CASE c.operator = "==" -> PyEq(actual, c.expected)
                   [] c.operator = "!=" -> ~PyEq(actual, c.expected)
                   [] c.operator = ">" ->
                        IF actual.t \in {"num", "bool"} /\ c.expected.t \in {"num", "bool"}
                        THEN NumLess(NumVal(c.expected), NumVal(actual))
                        ELSE FALSE

\* utils.merge_dicts
RECURSIVE merge_dicts(_, _)
merge_dicts(base, overlay) ==
    Obj([key \in DOMAIN base.f \cup DOMAIN overlay.f |->
            IF key \notin DOMAIN overlay.f THEN base.f[key]
            ELSE IF key \in DOMAIN base.f /\ IsObj(base.f[key]) /\ IsObj(overlay.f[key])
                 THEN Invoke("merge_dicts", <<base.f[key], overlay.f[key]>>)
                 ELSE overlay.f[key]])

\* The names of a key specification: a string is a list of one name
KeyNames(key_spec) ==
    IF IsStr(key_spec) THEN <<key_spec.s>>
    ELSE [j \in 1..Len(key_spec.e) |-> key_spec.e[j].s]

\* utils.extract_key_value: the tuple of key values, or None
extract_key_value(obj, key_spec) ==
    LET names == KeyNames(key_spec) IN
    IF ~IsObj(obj) \/ \E j \in 1..Len(names) : ~Has(obj, names[j])
    THEN [none |-> TRUE, key |-> <<>>]
    ELSE [none |-> FALSE, key |-> [j \in 1..Len(names) |-> obj.f[names[j]]]]

\* hash(key_value): a tuple holding a dict or a list is unhashable
Hashable(key_value) == \A j \in 1..Len(key_value) : key_value[j].t \notin {"obj", "arr"}

\* `==` of two key tuples: component by component, as Python compares them
KeyEq(k1, k2) ==
    Len(k1) = Len(k2) /\ \A j \in 1..Len(k1) : PyEq(k1[j], k2[j])

\* A keyed map is the sequence of its entries [key, item] in insertion order.
\* A dict takes equal keys for one key and keeps the key it saw first.
MapHas(map, key) == \E j \in 1..Len(map) : KeyEq(map[j].key, key)
MapGet(map, key) == map[CHOOSE j \in 1..Len(map) : KeyEq(map[j].key, key)].item
MapSet(map, key, item) ==
    IF MapHas(map, key)
    THEN [j \in 1..Len(map) |-> IF KeyEq(map[j].key, key)
                                THEN [key |-> map[j].key, item |-> item]
                                ELSE map[j]]
    ELSE Append(map, [key |-> key, item |-> item])
MapKeys(map) == {map[j].key : j \in 1..Len(map)}

\* set(old_map.keys()) | set(new_map.keys()): of two equal keys the set keeps
\* the one of old_map
AllKeys(old_map, new_map) ==
    MapKeys(old_map) \cup {key \in MapKeys(new_map) : ~MapHas(old_map, key)}

\* The loop of _build_key_map (normalizer.py:359-379) from item j on
RECURSIVE BuildKeyMapLoop(_, _, _, _, _)
BuildKeyMapLoop(array, j, key_spec, dup_handling, acc) ==
    IF j > Len(array.e) \/ acc.exc # "none" THEN acc
    ELSE LET item == array.e[j]
             i == j - 1
             kv == Invoke("extract_key_value", <<item, key_spec>>)
             key_value == kv.key
             marked == Put(item, "_index", Num(i))
             next ==
                IF kv.none THEN acc
                ELSE IF ~Hashable(key_value) THEN [acc EXCEPT !.exc = "TypeError"]
                ELSE IF MapHas(acc.result, key_value)
                     THEN CASE dup_handling = "error" ->
                                 [acc EXCEPT !.duplicates = Append(@,
                                    [key |-> key_value,
                                     indices |-> <<Get(MapGet(acc.result, key_value),
                                                       "_index"), Num(i)>>])]
                            [] dup_handling = "first" -> acc
                            [] dup_handling = "last" ->
                                 [acc EXCEPT !.result = MapSet(@, key_value, marked)]
                            [] dup_handling = "merge" ->
                                 [acc EXCEPT !.result = MapSet(@, key_value,
                                    Put(Invoke("merge_dicts", <<MapGet(acc.result, key_value), item>>),
                                        "_index", Num(i)))]
                     ELSE [acc EXCEPT !.result = MapSet(@, key_value, marked)]
         IN Invoke("BuildKeyMapLoop", <<array, j + 1, key_spec, dup_handling, next>>)

\* KeyedArrayTransformer._build_key_map
_build_key_map(array, key_spec, dup_handling) ==
    LET acc == Invoke("BuildKeyMapLoop", <<array, 1, key_spec, dup_handling,
                               [exc |-> "none", result |-> <<>>, duplicates |-> <<>>]>>)
    IN [acc EXCEPT !.result =
            [j \in 1..Len(acc.result) |->
                [key |-> acc.result[j].key, item |-> Del(acc.result[j].item, "_index")]]]

\* KeyedArrayTransformer.transform.  Without a key the maps are keyed by the
\* index: an int, not a tuple.
transform(old_array, new_array, rules) ==
    LET key_spec == rules.array_key IN
    IF ~Truthy(key_spec)
    THEN [exc |-> "none", int_keys |-> TRUE,
          old_map |-> [j \in 1..Len(old_array.e) |->
                         [key |-> <<Num(j - 1)>>, item |-> old_array.e[j]]],
          new_map |-> [j \in 1..Len(new_array.e) |->
                         [key |-> <<Num(j - 1)>>, item |-> new_array.e[j]]],
          duplicates |-> <<>>]
    ELSE LET o == Invoke("_build_key_map", <<old_array, key_spec, rules.duplicate_handling>>) IN
         IF o.exc # "none"
         THEN [exc |-> o.exc, int_keys |-> FALSE, old_map |-> <<>>, new_map |-> <<>>,
               duplicates |-> <<>>]
         ELSE LET n == Invoke("_build_key_map", <<new_array, key_spec, rules.duplicate_handling>>) IN
              [exc |-> n.exc, int_keys |-> FALSE, old_map |-> o.result,
               new_map |-> n.result, duplicates |-> o.duplicates \o n.duplicates]

\* Iteration order of a set of key tuples.  Like the order of a set of
\* strings it is fixed for the process: the keys by rank of their components,
\* forwards or backwards.
CompRank(v) ==
    CASE v.t = "num" -> v.n
      [] v.t = "str" -> MaxNum + (CHOOSE j \in 1..Len(DictOrder) : DictOrder[j] = v.s)
      [] OTHER -> 0 - MaxNum - 1

RECURSIVE TupleLess(_, _)
TupleLess(k1, k2) ==
    IF k1 = <<>> \/ k2 = <<>> THEN k1 = <<>> /\ k2 # <<>>
    ELSE IF CompRank(Head(k1)) # CompRank(Head(k2))
         THEN CompRank(Head(k1)) < CompRank(Head(k2))
         ELSE TupleLess(Tail(k1), Tail(k2))

RECURSIVE Ascending(_)
Ascending(keys) ==
    IF keys = {} THEN <<>>
    ELSE LET least == CHOOSE k \in keys : \A y \in keys \ {k} : TupleLess(k, y)
         IN <<least>> \o Invoke("Ascending", <<keys \ {least}>>)

KeyIter(keys, order) ==
    IF order = DictOrder THEN Invoke("Ascending", <<keys>>) ELSE SeqRev(Invoke("Ascending", <<keys>>))

-----------------------------------------------------------------------------
(* Stage 4: Differ *)

\* A differ whose diffs list outlives the call (one list shared by all
\* instances): the fault C3 excludes
NewDifferSharedDiffs(traverser_, root_data, fail_fast, trace_rules, set_order) ==
    [ traverser |-> traverser_, root_data |-> root_data, fail_fast |-> fail_fast,
      trace_rules |-> trace_rules,
      diffs |-> IF prev # [unset |-> TRUE] /\ prev.kind = "report" THEN prev.diffs
                ELSE <<>>,
      warnings |-> <<>>, traces |-> <<>>, fields_checked |-> 0, _aborted |-> FALSE,
      exc |-> "none", set_order |-> set_order ]

\* Differ(traverser, root_data, fail_fast, trace_rules) after __init__.  exc
\* is the exception that left a method of the differ ("none" if none did);
\* set_order is the iteration order of the process's sets.
NewDiffer(traverser_, root_data, fail_fast, trace_rules, set_order) ==
    [ traverser |-> traverser_, root_data |-> root_data, fail_fast |-> fail_fast,
      trace_rules |-> trace_rules, diffs |-> <<>>, warnings |-> <<>>,
      traces |-> <<>>, fields_checked |-> 0, _aborted |-> FALSE,
      exc |-> "none", set_order |-> set_order ]

Rule(name, arg) == [name |-> name, arg |-> arg]
NoRule == Rule("", Null)

\* Differ._add_diff
_add_diff(self, path, diff_type, old_value, new_value, message, rule) ==
    [self EXCEPT
        !.diffs = Append(@, [path |-> path, type |-> diff_type, severity |-> "error",
                             old_value |-> old_value, new_value |-> new_value,
                             message |-> message, rule_applied |-> rule]),
        !._aborted = IF self.fail_fast THEN TRUE ELSE @]

\* Differ._add_warning
_add_warning(self, path, diff_type, message) ==
    [self EXCEPT
        !.warnings = Append(@, [path |-> path, type |-> diff_type,
                                severity |-> "warning", message |-> message])]

\* Differ._add_trace
_add_trace(self, path, rule, action, details) ==
    IF self.trace_rules
    THEN [self EXCEPT !.traces = Append(@, [path |-> path, rule |-> rule,
                                            action |-> action, details |-> details])]
    ELSE self

\* What a method of the differ leaves: the differ and the value returned
Ret(self, m) == [d |-> self, m |-> m]
Raise(self, exc) == [d |-> [self EXCEPT !.exc = exc], m |-> FALSE]

\* utils.format_key_value: len() of the int key of an index-keyed map raises
format_key_value(key_value) ==
    IF Len(key_value) = 1 THEN key_value[1] ELSE Arr(key_value)

\* type(value): int and float are two types, bool a third
PyType(v) == IF v.t = "num" THEN (IF v.float THEN "float" ELSE "int") ELSE v.t

\* The type check without the int/float interop: the fault C13 excludes
TypesIdentical(old_v, new_v) == PyType(old_v) = PyType(new_v)

\* The type check of Differ.diff (differ.py:152-156): the same type, or two
\* numbers neither of which is a bool
TypesCompatible(old_v, new_v) ==
    \/ PyType(old_v) = PyType(new_v)
    \/ IsNum(old_v) /\ IsNum(new_v)

RECURSIVE diff(_, _, _, _, _)
RECURSIVE _diff_objects(_, _, _, _, _)
RECURSIVE ObjectKeysLoop(_, _, _, _, _, _, _)
RECURSIVE _diff_arrays(_, _, _, _, _)
RECURSIVE _diff_strict_arrays(_, _, _, _, _)
RECURSIVE StrictCommonLoop(_, _, _, _, _, _, _, _)
RECURSIVE _diff_unordered_arrays(_, _, _, _, _)
RECURSIVE UnorderedMatchLoop(_, _, _, _, _, _, _, _)
RECURSIVE _diff_keyed_arrays(_, _, _, _, _)
RECURSIVE KeyedKeysLoop(_, _, _, _, _, _)
RECURSIVE _items_equal(_, _, _, _, _)

\* Differ._diff_scalars.  The lenient strategy sets both string options on the
\* rules of this node.
_diff_scalars(self, old_v, new_v, path, rules_in) ==
    LET counted == [self EXCEPT !.fields_checked = @ + 1]
        rules == IF rules_in.strategy = "lenient"
                 THEN [rules_in EXCEPT !.trim_whitespace = TRUE, !.case_insensitive = TRUE]
                 ELSE rules_in
        cmp == Invoke("compare_with_rules", <<old_v, new_v, rules>>)
        diff_type == IF rules.precision # Null THEN "PRECISION_EXCEEDED"
                     ELSE IF rules.pattern # Null THEN "PATTERN_MISMATCH"
                     ELSE IF rules.datetime_tolerance # Null THEN "DATETIME_EXCEEDED"
                     ELSE "VALUE_MISMATCH"
        rule_applied == IF rules.precision # Null
                        THEN Rule("x-migration-precision", rules.precision)
                        ELSE IF rules.pattern # Null
                        THEN Rule("x-migration-pattern", rules.pattern)
                        ELSE IF rules.datetime_tolerance # Null
                        THEN Rule("x-migration-datetime-tolerance", rules.datetime_tolerance)
                        ELSE NoRule
    IN IF cmp.exc # "none" THEN Raise(counted, cmp.exc)
       ELSE IF cmp.is_match
            THEN Ret(IF rules.precision # Null
                     THEN _add_trace(counted, path, "x-migration-precision", "matched",
                                     O1("precision", rules.precision))
                     ELSE counted, TRUE)
            ELSE Ret(_add_diff(counted, path, diff_type, old_v, new_v, cmp.message,
                               rule_applied), FALSE)

\* Differ.diff
diff(self, old_in, new_in, path, parent_rules) ==
    IF self.exc # "none" THEN Ret(self, FALSE)
    ELSE IF self._aborted THEN Ret(self, FALSE)
    ELSE
    LET rules == Invoke("get_rules_for_path", <<self.traverser, path, parent_rules>>) IN
    IF rules.exc # "none" THEN Raise(self, rules.exc)
    ELSE IF Truthy(rules.when_condition)
       /\ ~Invoke("evaluate_condition", <<self.root_data, rules.when_condition>>)
    THEN Ret(_add_trace(self, path, "x-migration-when", "skipped",
                        O1("condition", rules.when_condition)), TRUE)
    ELSE IF rules.strategy = "ignore"
    THEN Ret(_add_trace(self, path, "x-migration-strategy", "ignored", Null), TRUE)
    ELSE IF rules.strategy = "exists"
    THEN LET traced == _add_trace(self, path, "x-migration-strategy", "exists-check", Null)
             old_exists == old_in # Null
             new_exists == new_in # Null
         IN IF old_exists # new_exists
            THEN Ret(_add_diff(traced, path, "VALUE_MISMATCH", old_in, new_in,
                               Msg("Existence mismatch", Bool(old_exists), Bool(new_exists)),
                               Rule("x-migration-strategy", Str("exists"))), FALSE)
            ELSE Ret([traced EXCEPT !.fields_checked = @ + 1], TRUE)
    ELSE IF old_in = Null /\ new_in = Null
    THEN Ret([self EXCEPT !.fields_checked = @ + 1], TRUE)
    ELSE IF old_in = Null
    THEN Ret(_add_diff(self, path, "MISSING_IN_NEW", old_in, new_in,
                       Msg("Field missing in old, present in new", new_in, Null),
                       NoRule), FALSE)
    ELSE IF new_in = Null
    THEN Ret(_add_diff(self, path, "MISSING_IN_NEW", old_in, new_in,
                       Msg("Field present in old, missing in new", old_in, Null),
                       NoRule), FALSE)
    ELSE
    LET old_v == IF Truthy(rules.cast) THEN Invoke("safe_cast", <<old_in, rules.cast.s>>) ELSE old_in
        new_v == IF Truthy(rules.cast) THEN Invoke("safe_cast", <<new_in, rules.cast.s>>) ELSE new_in
        cast == IF Truthy(rules.cast)
                THEN _add_trace(self, path, "x-migration-cast", "applied",
                                O1("cast_type", rules.cast))
                ELSE self
    IN IF ~TypesCompatible(old_v, new_v)
       THEN Ret(_add_diff(cast, path, "TYPE_MISMATCH", old_v, new_v,
                          Msg("Type mismatch", Str(get_type_name(old_v)),
                              Str(get_type_name(new_v))), NoRule), FALSE)
       ELSE IF IsObj(old_v) THEN Invoke("_diff_objects", <<cast, old_v, new_v, path, rules>>)
       ELSE IF IsArr(old_v) THEN Invoke("_diff_arrays", <<cast, old_v, new_v, path, rules>>)
       ELSE Invoke("_diff_scalars", <<cast, old_v, new_v, path, rules>>)

\* The loop of _diff_objects over all_keys (differ.py:185-227)
ObjectKeysLoop(self, keys, old_v, new_v, path, rules, all_match) ==
    IF self.exc # "none" THEN Ret(self, FALSE)
    ELSE IF keys = <<>> THEN Ret(self, all_match)
    ELSE IF self._aborted THEN Ret(self, FALSE)
    ELSE
    LET key == Head(keys)
        child_path == Append(path, KeySeg(key))
        child_rules == Invoke("get_rules_for_path", <<self.traverser, child_path, rules>>)
        step ==
            IF (~Has(old_v, key) \/ ~Has(new_v, key)) /\ child_rules.exc # "none"
            THEN Raise(self, child_rules.exc)
            ELSE IF ~Has(old_v, key)
            THEN IF child_rules.strategy # "ignore"
                 THEN Ret(_add_diff(self, child_path, "EXTRA_IN_NEW", Null, new_v.f[key],
                                    Msg("Extra field in new", Str(key), Null), NoRule),
                          FALSE)
                 ELSE Ret(self, all_match)
            ELSE IF ~Has(new_v, key)
            THEN IF child_rules.strategy # "ignore"
                 THEN IF child_rules.has_default
                      THEN LET r == Invoke("diff", <<self, old_v.f[key], child_rules.default,
                                         child_path, rules>>)
                           IN Ret(r.d, all_match /\ r.m)
                      ELSE Ret(_add_diff(self, child_path, "MISSING_IN_NEW",
                                         old_v.f[key], Null,
                                         Msg("Field missing in new", Str(key), Null),
                                         NoRule), FALSE)
                 ELSE Ret(self, all_match)
            ELSE LET r == Invoke("diff", <<self, old_v.f[key], new_v.f[key], child_path, rules>>)
                 IN Ret(r.d, all_match /\ r.m)
    IN Invoke("ObjectKeysLoop", <<step.d, Tail(keys), old_v, new_v, path, rules, step.m>>)

\* Differ._diff_objects
_diff_objects(self, old_v, new_v, path, rules) ==
    Invoke("ObjectKeysLoop", <<self, SetIter(DOMAIN old_v.f \cup DOMAIN new_v.f, self.set_order),
                   old_v, new_v, path, rules, TRUE>>)

\* Differ._diff_arrays
_diff_arrays(self, old_v, new_v, path, rules) ==
    IF rules.array_mode = "keyed" THEN Invoke("_diff_keyed_arrays", <<self, old_v, new_v, path, rules>>)
    ELSE IF rules.array_mode = "unordered"
         THEN Invoke("_diff_unordered_arrays", <<self, old_v, new_v, path, rules>>)
         ELSE Invoke("_diff_strict_arrays", <<self, old_v, new_v, path, rules>>)

\* The loop over the common indices in _diff_strict_arrays (differ.py:280-286);
\* early tells that the loop left the method with `return False`.
StrictCommonLoop(self, i, min_len, old_v, new_v, path, rules, all_match) ==
    IF self.exc # "none" THEN [d |-> self, m |-> FALSE, early |-> TRUE]
    ELSE IF i >= min_len THEN [d |-> self, m |-> all_match, early |-> FALSE]
    ELSE IF self._aborted THEN [d |-> self, m |-> FALSE, early |-> TRUE]
    ELSE LET r == Invoke("diff", <<self, old_v.e[i + 1], new_v.e[i + 1],
                                   Append(path, IdxSeg(i)), rules>>)
         IN Invoke("StrictCommonLoop", <<r.d, i + 1, min_len, old_v, new_v, path, rules,
                             all_match /\ r.m>>)

\* The loop over the extra items of new cut short after its first round:
\* the fault C22 excludes
ExtraItemsOnce(self, i, new_v, path) ==
    _add_diff(self, Append(path, IdxSeg(i)), "ARRAY_ITEM_EXTRA", Null, new_v.e[i + 1],
              Msg("Extra item in new array at index", Num(i), Null), NoRule)

\* The loop over the extra items of new (differ.py:298-305)
RECURSIVE ExtraItemsLoop(_, _, _, _)
ExtraItemsLoop(self, i, new_v, path) ==
    IF i >= Len(new_v.e) THEN self
    ELSE Invoke("ExtraItemsLoop", <<_add_diff(self, Append(path, IdxSeg(i)), "ARRAY_ITEM_EXTRA",
                                  Null, new_v.e[i + 1],
                                  Msg("Extra item in new array at index", Num(i), Null),
                                  NoRule),
                        i + 1, new_v, path>>)

\* The loop over the missing items of old (differ.py:310-317)
RECURSIVE MissingItemsLoop(_, _, _, _)
MissingItemsLoop(self, i, old_v, path) ==
    IF i >= Len(old_v.e) THEN self
    ELSE Invoke("MissingItemsLoop", <<_add_diff(self, Append(path, IdxSeg(i)), "ARRAY_ITEM_MISSING",
                                    old_v.e[i + 1], Null,
                                    Msg("Missing item in new array at index", Num(i), Null),
                                    NoRule),
                          i + 1, old_v, path>>)

\* Differ._diff_strict_arrays
_diff_strict_arrays(self, old_v, new_v, path, rules) ==
    LET len_old == Len(old_v.e)
        len_new == Len(new_v.e)
        length_diff(d) == _add_diff(d, path, "ARRAY_LENGTH_MISMATCH", Num(len_old),
                                    Num(len_new),
                                    Msg("Array length mismatch", Num(len_old), Num(len_new)),
                                    NoRule)
        checked == IF len_old # len_new
                   THEN IF ~rules.ignore_extra_items /\ len_new > len_old
                        THEN Ret(length_diff(self), FALSE)
                        ELSE IF ~rules.ignore_missing_items /\ len_old > len_new
                             THEN Ret(length_diff(self), FALSE)
                             ELSE Ret(self, TRUE)
                   ELSE Ret(self, TRUE)
        common == Invoke("StrictCommonLoop", <<checked.d, 0, Min(len_old, len_new), old_v, new_v,
                                   path, rules, checked.m>>)
        extra == IF len_new > len_old
                 THEN IF rules.ignore_extra_items
                      THEN Ret(_add_warning(common.d, path, "ARRAY_ITEM_EXTRA",
                                            Msg("New array contains extra items",
                                                Num(len_new - len_old), Null)),
                               common.m)
                      ELSE Ret(Invoke("ExtraItemsLoop", <<common.d, len_old, new_v, path>>), FALSE)
                 ELSE Ret(common.d, common.m)
        missing == IF len_old > len_new /\ ~rules.ignore_missing_items
                   THEN Ret(Invoke("MissingItemsLoop", <<extra.d, len_new, old_v, path>>), FALSE)
                   ELSE extra
    IN IF common.early THEN Ret(common.d, FALSE) ELSE missing

\* Differ._items_equal: a differ of its own, fail-fast and without traces
_items_equal(self, old_v, new_v, path, rules) ==
    Invoke("diff", <<NewDiffer(self.traverser, self.root_data, TRUE, FALSE, self.set_order),
         old_v, new_v, path, rules>>)

\* The matching loops of _diff_unordered_arrays without the test of
\* new_matched[j], a new item matched again and again: the fault C28 excludes
UnorderedMatchLoopRepeating(self, i, j, old_v, new_v, path, rules, matched) ==
    IF self.exc # "none" \/ i >= Len(old_v.e) THEN [d |-> self, matched |-> matched]
    ELSE IF j >= Len(new_v.e)
         THEN Invoke("UnorderedMatchLoop", <<self, i + 1, 0, old_v, new_v, path, rules, matched>>)
    ELSE LET r == Invoke("_items_equal", <<self, old_v.e[i + 1], new_v.e[j + 1],
                               Append(path, IdxSeg(i)), rules>>)
         IN IF r.d.exc # "none"
            THEN [d |-> [self EXCEPT !.exc = r.d.exc], matched |-> matched]
            ELSE IF r.m
                 THEN Invoke("UnorderedMatchLoop", <<[self EXCEPT !.fields_checked = @ + 1], i + 1, 0,
                                         old_v, new_v, path, rules,
                                         [old |-> matched.old \cup {i},
                                          new |-> matched.new \cup {j}]>>)
                 ELSE Invoke("UnorderedMatchLoop", <<self, i, j + 1, old_v, new_v, path,
                                                     rules, matched>>)

\* The matching loops of _diff_unordered_arrays (differ.py:338-347): old item
\* i against new item j; matched holds the indices matched so far.
UnorderedMatchLoop(self, i, j, old_v, new_v, path, rules, matched) ==
    IF self.exc # "none" \/ i >= Len(old_v.e) THEN [d |-> self, matched |-> matched]
    ELSE IF j >= Len(new_v.e)
         THEN Invoke("UnorderedMatchLoop", <<self, i + 1, 0, old_v, new_v, path, rules, matched>>)
    ELSE IF j \in matched.new
         THEN Invoke("UnorderedMatchLoop", <<self, i, j + 1, old_v, new_v, path, rules, matched>>)
    ELSE LET r == Invoke("_items_equal", <<self, old_v.e[i + 1], new_v.e[j + 1],
                               Append(path, IdxSeg(i)), rules>>)
         IN IF r.d.exc # "none"
            THEN [d |-> [self EXCEPT !.exc = r.d.exc], matched |-> matched]
            ELSE IF r.m
                 THEN Invoke("UnorderedMatchLoop", <<[self EXCEPT !.fields_checked = @ + 1], i + 1, 0,
                                         old_v, new_v, path, rules,
                                         [old |-> matched.old \cup {i},
                                          new |-> matched.new \cup {j}]>>)
                 ELSE Invoke("UnorderedMatchLoop", <<self, i, j + 1, old_v, new_v, path,
                                                     rules, matched>>)

\* The report of the unmatched old items (differ.py:350-360)
RECURSIVE UnmatchedOldLoop(_, _, _, _, _, _)
UnmatchedOldLoop(self, i, old_v, path, rules, old_matched) ==
    IF i >= Len(old_v.e) THEN self
    ELSE Invoke("UnmatchedOldLoop", <<
            IF i \notin old_matched /\ ~rules.ignore_missing_items /\ ~rules.array_subset
            THEN _add_diff(self, Append(path, IdxSeg(i)), "ARRAY_ITEM_MISSING",
                           old_v.e[i + 1], Null,
                           Msg("Item from old array not found in new", Null, Null), NoRule)
            ELSE self,
            i + 1, old_v, path, rules, old_matched>>)

\* The report of the unmatched new items (differ.py:363-379)
RECURSIVE UnmatchedNewLoop(_, _, _, _, _, _)
UnmatchedNewLoop(self, j, new_v, path, rules, new_matched) ==
    IF j >= Len(new_v.e) THEN self
    ELSE Invoke("UnmatchedNewLoop", <<
            IF j \in new_matched THEN self
            ELSE IF rules.ignore_extra_items
                 THEN _add_warning(self, Append(path, IdxSeg(j)), "ARRAY_ITEM_EXTRA",
                                   Msg("Extra item in new array (allowed)", Null, Null))
                 ELSE _add_diff(self, Append(path, IdxSeg(j)), "ARRAY_ITEM_EXTRA",
                                Null, new_v.e[j + 1],
                                Msg("Extra item in new array", Null, Null), NoRule),
            j + 1, new_v, path, rules, new_matched>>)

\* Differ._diff_unordered_arrays
_diff_unordered_arrays(self, old_v, new_v, path, rules) ==
    LET matching == Invoke("UnorderedMatchLoop", <<self, 0, 0, old_v, new_v, path, rules,
                                       [old |-> {}, new |-> {}]>>)
        old_reported == Invoke("UnmatchedOldLoop", <<matching.d, 0, old_v, path, rules,
                                         matching.matched.old>>)
        new_reported == Invoke("UnmatchedNewLoop", <<old_reported, 0, new_v, path, rules,
                                         matching.matched.new>>)
    IN IF matching.d.exc # "none" THEN Ret(matching.d, FALSE)
       ELSE \* all_match is False exactly when one of the two reports added a diff
            Ret(new_reported, Len(new_reported.diffs) = Len(self.diffs))

\* The report of the duplicate keys (differ.py:397-406)
RECURSIVE DuplicatesLoop(_, _, _, _, _)
DuplicatesLoop(self, duplicates, j, path, rules) ==
    IF j > Len(duplicates) THEN self
    ELSE Invoke("DuplicatesLoop", <<
            _add_diff(self, path, "DUPLICATE_KEY", Null, Null,
                      Msg("Duplicate key", format_key_value(duplicates[j].key),
                          Arr(duplicates[j].indices)),
                      Rule("x-migration-array-key", rules.array_key)),
            duplicates, j + 1, path, rules>>)

\* The loop of _diff_keyed_arrays over all_keys (differ.py:412-461); t is what
\* transform returned.
KeyedKeysLoop(self, keys, t, path, rules, all_match) ==
    IF self.exc # "none" THEN Ret(self, FALSE)
    ELSE IF keys = <<>> THEN Ret(self, all_match)
    ELSE IF self._aborted THEN Ret(self, FALSE)
    ELSE IF t.int_keys THEN Raise(self, "TypeError")
    ELSE
    LET key == Head(keys)
        key_display == format_key_value(key)
        item_path == IF IsStr(rules.array_key)
                     THEN Append(path, FilterSeg(key_display))
                     ELSE Append(path, CompositeSeg(key_display))
        step ==
            IF ~MapHas(t.old_map, key)
            THEN IF rules.ignore_extra_items
                 THEN Ret(_add_warning(self, item_path, "ARRAY_ITEM_EXTRA",
                                       Msg("Extra item with key in new (allowed)",
                                           key_display, Null)), all_match)
                 ELSE Ret(_add_diff(self, item_path, "ARRAY_ITEM_EXTRA", Null,
                                    MapGet(t.new_map, key),
                                    Msg("Extra item with key in new array",
                                        key_display, Null), NoRule), FALSE)
            ELSE IF ~MapHas(t.new_map, key)
            THEN IF rules.ignore_missing_items
                 THEN Ret(_add_warning(self, item_path, "ARRAY_ITEM_MISSING",
                                       Msg("Missing item with key in new (allowed)",
                                           key_display, Null)), all_match)
                 ELSE Ret(_add_diff(self, item_path, "ARRAY_ITEM_MISSING",
                                    MapGet(t.old_map, key), Null,
                                    Msg("Missing item with key in new array",
                                        key_display, Null), NoRule), FALSE)
            ELSE LET r == Invoke("diff", <<self, MapGet(t.old_map, key), MapGet(t.new_map, key),
                               item_path, rules>>)
                 IN Ret(r.d, all_match /\ r.m)
    IN Invoke("KeyedKeysLoop", <<step.d, Tail(keys), t, path, rules, step.m>>)

\* Differ._diff_keyed_arrays
_diff_keyed_arrays(self, old_v, new_v, path, rules) ==
    LET t == Invoke("transform", <<old_v, new_v, rules>>)
        reported == Invoke("DuplicatesLoop", <<self, t.duplicates, 1, path, rules>>)
    IN IF t.exc # "none" THEN Raise(self, t.exc)
       ELSE Invoke("KeyedKeysLoop", <<reported,
                          Invoke("KeyIter", <<AllKeys(t.old_map, t.new_map),
                                  self.set_order>>),
                          t, path, rules, t.duplicates = <<>>>>)

-----------------------------------------------------------------------------
(* ShadowDiffEngine *)

\* EngineConfig() with the dataclass defaults
DefaultMaxDepth == 100
DefaultMaxPayloadSizeMb == 50
DefaultConfig ==
    [ max_depth |-> DefaultMaxDepth, max_payload_size_mb |-> DefaultMaxPayloadSizeMb,
      collect_statistics |-> TRUE, trace_rule_application |-> FALSE,
      fail_fast |-> FALSE ]

\* len(json.dumps(obj)): the number of characters of the JSON text
RECURSIVE JsonLen(_)
JsonLen(v) ==
    CASE v.t = "null" -> 4
      [] v.t = "bool" -> IF v.b THEN 4 ELSE 5
      [] v.t = "num" -> Len(StrOf(v))
      [] v.t = "str" -> Len(v.s) + 2
      [] v.t = "arr" ->
            2 + SumOver([j \in 1..Len(v.e) |-> JsonLen(v.e[j]) + 2],
                        [j \in 1..Len(v.e) |-> j])
              - (IF v.e = <<>> THEN 0 ELSE 2)
      [] v.t = "obj" ->
            2 + SumOver([k \in DOMAIN v.f |-> Len(k) + 4 + JsonLen(v.f[k]) + 2], KeysOf(v))
              - (IF DOMAIN v.f = {} THEN 0 ELSE 2)

BytesPerMb == 1048576

\* utils.get_json_size_mb(obj) > limit_mb, in whole bytes
ExceedsSize(obj, limit_mb) == JsonLen(obj) > limit_mb * BytesPerMb

\* ShadowDiffEngine._validate_inputs: the exception raised, "none" if none
_validate_inputs(config, old_json, new_json, schema_fragment) ==
    IF old_json = Null THEN "ValidationError"
    ELSE IF new_json = Null THEN "ValidationError"
    ELSE IF schema_fragment = Null THEN "ValidationError"
    ELSE IF ~IsObj(schema_fragment) THEN "ValidationError"
    ELSE IF ExceedsSize(old_json, config.max_payload_size_mb) THEN "PayloadSizeError"
    ELSE IF ExceedsSize(new_json, config.max_payload_size_mb) THEN "PayloadSizeError"
    ELSE "none"

\* Except clauses that give the exception's class name as the code of any
\* exception they do not know: the fault C8 excludes
ErrorCodeByClass(exc) ==
    CASE exc = "ValidationError" -> "VALIDATION_ERROR"
      [] exc = "SchemaParseError" -> "SCHEMA_PARSE_ERROR"
      [] exc = "PayloadSizeError" -> "PAYLOAD_SIZE_ERROR"
      [] OTHER -> exc

\* The except clauses of compare (engine.py:130-164): the code of the
\* ErrorResponse for an exception class.  ExternalRefError and CircularRefError
\* derive from ShadowDiffError only, so the last clause takes them.
ErrorCode(exc) ==
    CASE exc = "ValidationError" -> "VALIDATION_ERROR"
      [] exc = "SchemaParseError" -> "SCHEMA_PARSE_ERROR"
      [] exc = "PayloadSizeError" -> "PAYLOAD_SIZE_ERROR"
      [] exc = "MaxDepthExceededError" -> "MAX_DEPTH_ERROR"
      [] OTHER -> "PROCESSING_ERROR"

\* ShadowDiffEngine._create_error_response
_create_error_response(code, exc) ==
    [ kind |-> "error", success |-> FALSE, code |-> code, type |-> exc ]

\* ShadowDiffEngine._count_schema_fields
RECURSIVE _count_schema_fields(_, _)
_count_schema_fields(schema, depth) ==
    IF depth > 50 THEN 0
    ELSE IF Has(schema, "components") /\ Has(Get(schema, "components"), "schemas")
    THEN LET schemas == Get(Get(schema, "components"), "schemas") IN
         SumOver([k \in DOMAIN schemas.f |->
                    Invoke("_count_schema_fields", <<schemas.f[k], depth + 1>>)],
                 KeysOf(schemas))
    ELSE (IF Has(schema, "properties")
          THEN LET props == Get(schema, "properties") IN
               SumOver([k \in DOMAIN props.f |->
                          1 + Invoke("_count_schema_fields", <<props.f[k], depth + 1>>)], KeysOf(props))
          ELSE 0)
         + (IF Has(schema, "items")
            THEN Invoke("_count_schema_fields", <<Get(schema, "items"), depth + 1>>)
            ELSE 0)

\* ShadowDiffEngine._count_payload_fields
RECURSIVE _count_payload_fields(_, _)
_count_payload_fields(data, depth) ==
    IF depth > 50 THEN 0
    ELSE IF IsObj(data)
    THEN Cardinality(DOMAIN data.f)
         + SumOver([k \in DOMAIN data.f |-> Invoke("_count_payload_fields", <<data.f[k], depth + 1>>)],
                   KeysOf(data))
    ELSE IF IsArr(data)
    THEN SumOver([j \in 1..Len(data.e) |-> Invoke("_count_payload_fields", <<data.e[j], depth + 1>>)],
                 [j \in 1..Len(data.e) |-> j])
    ELSE 0

\* ShadowDiffEngine._collect_paths
RECURSIVE _collect_paths(_, _, _)
_collect_paths(data, path, depth) ==
    IF depth > 50 THEN {}
    ELSE IF IsObj(data)
    THEN UNION { {Append(path, KeySeg(k))}
                 \cup Invoke("_collect_paths", <<data.f[k], Append(path, KeySeg(k)), depth + 1>>) :
                 k \in DOMAIN data.f }
    ELSE IF IsArr(data)
    THEN UNION { Invoke("_collect_paths", <<data.e[j], Append(path, IdxSeg(j - 1)), depth + 1>>) :
                 j \in 1..Len(data.e) }
    ELSE {}

\* ShadowDiffEngine._calculate_coverage.  The two lists of unmatched paths are
\* kept as sets.
_calculate_coverage(old_json, new_json, schema) ==
    LET old_fields == Invoke("_count_payload_fields", <<old_json, 0>>)
        new_fields == Invoke("_count_payload_fields", <<new_json, 0>>)
        old_paths == Invoke("_collect_paths", <<old_json, RootPath, 0>>)
        new_paths == Invoke("_collect_paths", <<new_json, RootPath, 0>>)
    IN [ fields_in_schema |-> Invoke("_count_schema_fields", <<schema, 0>>),
         fields_in_payload |-> IF old_fields > new_fields THEN old_fields ELSE new_fields,
         unmatched_in_old |-> old_paths \ new_paths,
         unmatched_in_new |-> new_paths \ old_paths ]

\* Normalizer.normalize: the two normalized documents, and what the default
\* injection wrote into the objects of the resolved schema.
normalize(tr, gr, old_json, new_json) ==
    LET old1 == Invoke("_apply_global_ignores", <<gr, old_json>>)
        new1 == Invoke("_apply_global_ignores", <<gr, new_json>>)
        old2 == Invoke("_apply_aliases", <<tr, old1, RootPath>>)
        old3 == IF gr.allow_null_as_missing THEN Invoke("_normalize_nulls", <<old2>>) ELSE old2
        new3 == IF gr.allow_null_as_missing THEN Invoke("_normalize_nulls", <<new1>>) ELSE new1
        old4 == IF gr.empty_string_as_null THEN Invoke("_normalize_empty_strings", <<old3>>) ELSE old3
        new4 == IF gr.empty_string_as_null THEN Invoke("_normalize_empty_strings", <<new3>>) ELSE new3
        old5 == Invoke("_apply_defaults", <<tr, old4, RootPath>>)
        new5 == Invoke("_apply_defaults", <<tr, new4, RootPath>>)
        old6 == Invoke("_apply_enum_mapping", <<tr, old5, RootPath>>)
    IN [ old |-> Invoke("_apply_array_sorting", <<tr, old6, RootPath>>),
         new |-> Invoke("_apply_array_sorting", <<tr, new5, RootPath>>),
         writes |-> Invoke("SchemaWrites", <<tr, old4, RootPath>>)
                    \cup Invoke("SchemaWrites", <<tr, new4, RootPath>>) ]

\* The writes that land in objects of the caller's schema.  shared holds the
\* locations where the resolver returned the caller's object itself
\* (schema.py:38-39).  A default at or below such a location is the caller's
\* object as a whole; a default above one is a copy whose part at that
\* location is the caller's object.
SharedWrites(writes, shared) ==
    {w \in writes : \E loc \in shared : IsPrefix(loc, w.loc)}
    \cup {[loc |-> p[2],
           v |-> ReadAt(p[1].v, SubSeq(p[2], Len(p[1].loc) + 1, Len(p[2])))] :
            p \in {q \in writes \X shared :
                     IsPrefix(q[1].loc, q[2]) /\ q[1].loc # q[2]}}

\* A report whose is_match also asks for no warnings: the fault C1 excludes
DiffReportNoWarnings(config, differ_, is_match_, ignored_count, coverage) ==
    [ kind |-> "report",
      is_match |-> is_match_ /\ Len(differ_.diffs) = 0 /\ Len(differ_.warnings) = 0,
      summary |-> [ total_fields_checked |-> differ_.fields_checked,
                    mismatches_found |-> Len(differ_.diffs),
                    warnings_count |-> Len(differ_.warnings),
                    fields_ignored |-> ignored_count ],
      diffs |-> differ_.diffs,
      warnings |-> differ_.warnings,
      trace |-> IF config.trace_rule_application THEN differ_.traces ELSE <<>>,
      coverage |-> coverage ]

\* DiffReport, without execution.duration_ms and execution.timestamp
DiffReport(config, differ_, is_match_, ignored_count, coverage) ==
    [ kind |-> "report",
      is_match |-> is_match_ /\ Len(differ_.diffs) = 0,
      summary |-> [ total_fields_checked |-> differ_.fields_checked,
                    mismatches_found |-> Len(differ_.diffs),
                    warnings_count |-> Len(differ_.warnings),
                    fields_ignored |-> ignored_count ],
      diffs |-> differ_.diffs,
      warnings |-> differ_.warnings,
      trace |-> IF config.trace_rule_application THEN differ_.traces ELSE <<>>,
      coverage |-> coverage ]

\* ShadowDiffEngine.compare as a function of its inputs: what it returns, and
\* the caller's schema afterwards.  order is the set iteration order of the
\* process.
Compare(config, order, old_json, new_json, schema_fragment) ==
    LET invalid == Invoke("_validate_inputs", <<config, old_json, new_json, schema_fragment>>)
        resolved == Invoke("resolve", <<[schema |-> schema_fragment, max_depth |-> config.max_depth]>>)
        tr0 == [schema |-> resolved.v]
        rules == Invoke("extract_global_rules", <<resolved.v>>)
        normalized == Invoke("normalize", <<tr0, rules, old_json, new_json>>)
        tr == [schema |-> Invoke("ApplyWrites", <<resolved.v, normalized.writes>>)]
        masked == Invoke("mask", <<tr, normalized.old, normalized.new>>)
        diffed == Invoke("diff", <<NewDiffer(tr, O2("old", masked.old, "new", masked.new),
                                 config.fail_fast, config.trace_rule_application, order),
                       masked.old, masked.new, RootPath, DefaultRules>>)
        coverage == IF config.collect_statistics
                    THEN Invoke("_calculate_coverage", <<old_json, new_json, tr.schema>>)
                    ELSE [none |-> TRUE]
    IN IF invalid # "none"
       THEN [ret |-> _create_error_response(ErrorCode(invalid), invalid),
             schema |-> schema_fragment]
       ELSE IF resolved.exc # "none"
       THEN [ret |-> _create_error_response(ErrorCode(resolved.exc), resolved.exc),
             schema |-> schema_fragment]
       ELSE LET after == Invoke("ApplyWrites", <<schema_fragment,
                                     Invoke("SharedWrites", <<normalized.writes, resolved.shared>>)>>)
            IN IF masked.exc # "none"
               THEN [ret |-> _create_error_response(ErrorCode(masked.exc), masked.exc),
                     schema |-> after]
               ELSE IF diffed.d.exc # "none"
               THEN [ret |-> _create_error_response(ErrorCode(diffed.d.exc), diffed.d.exc),
                     schema |-> after]
               ELSE [ret |-> Invoke("DiffReport", <<config, diffed.d, diffed.m, masked.ignored_count,
                                        coverage>>),
                     schema |-> after]

\* The call of a function or method of the engine by its name, with its
\* arguments in order.  The functions call one another through it.
Invoke(n, a) ==
    CASE n = "_parse_path_segments" -> _parse_path_segments(a[1])
      [] n = "FirstValue" -> FirstValue(a[1])
      [] n = "_get_root_schema" -> _get_root_schema(a[1])
      [] n = "Descend" -> Descend(a[1], a[2])
      [] n = "_traverse_to_path" -> _traverse_to_path(a[1], a[2])
      [] n = "get_schema_for_path" -> get_schema_for_path(a[1], a[2])
      [] n = "extract_field_rules" -> extract_field_rules(a[1], a[2])
      [] n = "get_rules_for_path" -> get_rules_for_path(a[1], a[2], a[3])
      [] n = "extract_global_rules" -> extract_global_rules(a[1])
      [] n = "WalkPointer" -> WalkPointer(a[1], a[2])
      [] n = "_resolve_ref" -> _resolve_ref(a[1], a[2], a[3], a[4])
      [] n = "ResolveDict" -> ResolveDict(a[1], a[2], a[3], a[4], a[5], a[6])
      [] n = "ResolveList" -> ResolveList(a[1], a[2], a[3], a[4], a[5], a[6])
      [] n = "_resolve_node" -> _resolve_node(a[1], a[2], a[3], a[4], a[5])
      [] n = "resolve" -> resolve(a[1])
      [] n = "_delete_field_recursive" -> _delete_field_recursive(a[1], a[2])
      [] n = "_delete_recursive" -> _delete_recursive(a[1], a[2])
      [] n = "_delete_jsonpath" -> _delete_jsonpath(a[1], a[2])
      [] n = "DeleteEach" -> DeleteEach(a[1], a[2], a[3])
      [] n = "_apply_global_ignores" -> _apply_global_ignores(a[1], a[2])
      [] n = "FirstAlias" -> FirstAlias(a[1], a[2], a[3])
      [] n = "AliasKey" -> AliasKey(a[1], a[2], a[3])
      [] n = "_apply_aliases" -> _apply_aliases(a[1], a[2], a[3])
      [] n = "_normalize_nulls" -> _normalize_nulls(a[1])
      [] n = "_normalize_empty_strings" -> _normalize_empty_strings(a[1])
      [] n = "MissingDefaults" -> MissingDefaults(a[1], a[2])
      [] n = "InjectDefaults" -> InjectDefaults(a[1], a[2])
      [] n = "_apply_defaults" -> _apply_defaults(a[1], a[2], a[3])
      [] n = "RootLoc" -> RootLoc(a[1])
      [] n = "DescendLoc" -> DescendLoc(a[1], a[2], a[3])
      [] n = "SchemaLoc" -> SchemaLoc(a[1], a[2])
      [] n = "SchemaWrites" -> SchemaWrites(a[1], a[2], a[3])
      [] n = "WriteAt" -> WriteAt(a[1], a[2], a[3])
      [] n = "ApplyWrites" -> ApplyWrites(a[1], a[2])
      [] n = "_apply_enum_mapping" -> _apply_enum_mapping(a[1], a[2], a[3])
      [] n = "sort_key" -> sort_key(a[1], a[2])
      [] n = "InsertSorted" -> InsertSorted(a[1], a[2], a[3])
      [] n = "Sorted" -> Sorted(a[1], a[2], a[3])
      [] n = "_sort_array" -> _sort_array(a[1], a[2])
      [] n = "_apply_array_sorting" -> _apply_array_sorting(a[1], a[2], a[3])
      [] n = "_was_ignored" -> _was_ignored(a[1], a[2])
      [] n = "_mask_recursive" -> _mask_recursive(a[1], a[2], a[3], a[4])
      [] n = "mask" -> mask(a[1], a[2], a[3])
      [] n = "safe_cast" -> safe_cast(a[1], a[2])
      [] n = "compare_numbers" -> compare_numbers(a[1], a[2], a[3])
      [] n = "compare_strings" -> compare_strings(a[1], a[2], a[3])
      [] n = "parse_datetime" -> parse_datetime(a[1], a[2])
      [] n = "parse_duration" -> parse_duration(a[1])
      [] n = "compare_datetime" -> compare_datetime(a[1], a[2], a[3], a[4])
      [] n = "compare_with_rules" -> compare_with_rules(a[1], a[2], a[3])
      [] n = "find_values" -> find_values(a[1], a[2])
      [] n = "evaluate_condition" -> evaluate_condition(a[1], a[2])
      [] n = "merge_dicts" -> merge_dicts(a[1], a[2])
      [] n = "extract_key_value" -> extract_key_value(a[1], a[2])
      [] n = "BuildKeyMapLoop" -> BuildKeyMapLoop(a[1], a[2], a[3], a[4], a[5])
      [] n = "_build_key_map" -> _build_key_map(a[1], a[2], a[3])
      [] n = "transform" -> transform(a[1], a[2], a[3])
      [] n = "Ascending" -> Ascending(a[1])
      [] n = "KeyIter" -> KeyIter(a[1], a[2])
      [] n = "_diff_scalars" -> _diff_scalars(a[1], a[2], a[3], a[4], a[5])
      [] n = "diff" -> diff(a[1], a[2], a[3], a[4], a[5])
      [] n = "ObjectKeysLoop" -> ObjectKeysLoop(a[1], a[2], a[3], a[4], a[5], a[6], a[7])
      [] n = "_diff_objects" -> _diff_objects(a[1], a[2], a[3], a[4], a[5])
      [] n = "_diff_arrays" -> _diff_arrays(a[1], a[2], a[3], a[4], a[5])
      [] n = "StrictCommonLoop" -> StrictCommonLoop(a[1], a[2], a[3], a[4], a[5], a[6], a[7], a[8])
      [] n = "ExtraItemsLoop" -> ExtraItemsLoop(a[1], a[2], a[3], a[4])
      [] n = "MissingItemsLoop" -> MissingItemsLoop(a[1], a[2], a[3], a[4])
      [] n = "_diff_strict_arrays" -> _diff_strict_arrays(a[1], a[2], a[3], a[4], a[5])
      [] n = "_items_equal" -> _items_equal(a[1], a[2], a[3], a[4], a[5])
      [] n = "UnorderedMatchLoop" -> UnorderedMatchLoop(a[1], a[2], a[3], a[4], a[5], a[6], a[7], a[8])
      [] n = "UnmatchedOldLoop" -> UnmatchedOldLoop(a[1], a[2], a[3], a[4], a[5], a[6])
      [] n = "UnmatchedNewLoop" -> UnmatchedNewLoop(a[1], a[2], a[3], a[4], a[5], a[6])
      [] n = "_diff_unordered_arrays" -> _diff_unordered_arrays(a[1], a[2], a[3], a[4], a[5])
      [] n = "DuplicatesLoop" -> DuplicatesLoop(a[1], a[2], a[3], a[4], a[5])
      [] n = "KeyedKeysLoop" -> KeyedKeysLoop(a[1], a[2], a[3], a[4], a[5], a[6])
      [] n = "_diff_keyed_arrays" -> _diff_keyed_arrays(a[1], a[2], a[3], a[4], a[5])
      [] n = "_validate_inputs" -> _validate_inputs(a[1], a[2], a[3], a[4])
      [] n = "_count_schema_fields" -> _count_schema_fields(a[1], a[2])
      [] n = "_count_payload_fields" -> _count_payload_fields(a[1], a[2])
      [] n = "_collect_paths" -> _collect_paths(a[1], a[2], a[3])
      [] n = "_calculate_coverage" -> _calculate_coverage(a[1], a[2], a[3])
      [] n = "normalize" -> normalize(a[1], a[2], a[3], a[4])
      [] n = "SharedWrites" -> SharedWrites(a[1], a[2])
      [] n = "DiffReport" -> DiffReport(a[1], a[2], a[3], a[4], a[5])
      [] n = "Compare" -> Compare(a[1], a[2], a[3], a[4], a[5])

-----------------------------------------------------------------------------
(* The engine as a state machine: the stages of a call of compare, and calls
   one after another on the same engine with the same caller's objects.     *)

\* Number of calls of compare made with the same objects
MaxCalls == 2

\* A local variable of compare that holds nothing yet
Unset == [unset |-> TRUE]

\* The state in which compare(old_json, new_json, schema_fragment) of an engine
\* with config in.config is entered for the first time
Entered(in, order) ==
    /\ pc = "validate"
    /\ cfg = in.config
    /\ hashOrder = order
    /\ B = in.old_json /\ C = in.new_json /\ S = in.schema_fragment
    /\ B0 = in.old_json /\ C0 = in.new_json /\ S0 = in.schema_fragment
    /\ sharedLocs = {}
    /\ traverser = Unset /\ global_rules = Unset
    /\ old_normalized = Unset /\ new_normalized = Unset
    /\ old_masked = Unset /\ new_masked = Unset
    /\ masker = Unset /\ differ = Unset /\ is_match = Unset
    /\ result = Unset /\ prev = Unset
    /\ calls = 0

\* compare returns ret: the call is over
Return(ret) ==
    /\ pc' = "done"
    /\ result' = ret
    /\ calls' = calls + 1

\* engine.py:74-75
Validate ==
    /\ pc = "validate"
    /\ LET exc == Invoke("_validate_inputs", <<cfg, B, C, S>>) IN
       IF exc # "none"
       THEN Return(_create_error_response(ErrorCode(exc), exc))
       ELSE pc' = "resolve" /\ UNCHANGED <<result, calls>>
    /\ UNCHANGED <<cfg, hashOrder, B, C, S, B0, C0, S0, sharedLocs, traverser, global_rules,
                   old_normalized, new_normalized, old_masked, new_masked, masker,
                   differ, is_match, prev>>

\* engine.py:77-83
Resolve ==
    /\ pc = "resolve"
    /\ LET r == Invoke("resolve", <<[schema |-> S, max_depth |-> cfg.max_depth]>>) IN
       IF r.exc # "none"
       THEN /\ Return(_create_error_response(ErrorCode(r.exc), r.exc))
            /\ UNCHANGED <<sharedLocs, traverser, global_rules>>
       ELSE /\ pc' = "normalize"
            /\ sharedLocs' = r.shared
            /\ traverser' = [schema |-> r.v]
            /\ global_rules' = Invoke("extract_global_rules", <<r.v>>)
            /\ UNCHANGED <<result, calls>>
    /\ UNCHANGED <<cfg, hashOrder, B, C, S, B0, C0, S0, old_normalized, new_normalized,
                   old_masked, new_masked, masker, differ, is_match, prev>>

\* engine.py:85-87.  The normalizer works on deep copies of B and C; the
\* defaults it injects are objects of the resolved schema, which it changes in
\* place, and those of them that are objects of S change S.
Normalize ==
    /\ pc = "normalize"
    /\ LET n == Invoke("normalize", <<traverser, global_rules, B, C>>) IN
       /\ old_normalized' = n.old
       /\ new_normalized' = n.new
       /\ traverser' = [schema |-> Invoke("ApplyWrites", <<traverser.schema, n.writes>>)]
       /\ S' = Invoke("ApplyWrites", <<S, Invoke("SharedWrites", <<n.writes, sharedLocs>>)>>)
    /\ pc' = "mask"
    /\ UNCHANGED <<cfg, hashOrder, B, C, B0, C0, S0, sharedLocs, global_rules, old_masked,
                   new_masked, masker, differ, is_match, result, calls, prev>>

\* engine.py:89-93
Mask ==
    /\ pc = "mask"
    /\ LET m == Invoke("mask", <<traverser, old_normalized, new_normalized>>) IN
       /\ masker' = [ignored_count |-> m.ignored_count]
       /\ IF m.exc # "none"
          THEN /\ Return(_create_error_response(ErrorCode(m.exc), m.exc))
               /\ UNCHANGED <<old_masked, new_masked>>
          ELSE /\ pc' = "diff"
               /\ old_masked' = m.old
               /\ new_masked' = m.new
               /\ UNCHANGED <<result, calls>>
    /\ UNCHANGED <<cfg, hashOrder, B, C, S, B0, C0, S0, sharedLocs, traverser, global_rules,
                   old_normalized, new_normalized, differ, is_match, prev>>

\* engine.py:95-102
Diff ==
    /\ pc = "diff"
    /\ LET r == Invoke("diff", <<NewDiffer(traverser, O2("old", old_masked, "new", new_masked),
                               cfg.fail_fast, cfg.trace_rule_application, hashOrder),
                     old_masked, new_masked, RootPath, DefaultRules>>) IN
       /\ differ' = r.d
       /\ IF r.d.exc # "none"
          THEN /\ Return(_create_error_response(ErrorCode(r.d.exc), r.d.exc))
               /\ UNCHANGED is_match
          ELSE /\ pc' = "report"
               /\ is_match' = r.m
               /\ UNCHANGED <<result, calls>>
    /\ UNCHANGED <<cfg, hashOrder, B, C, S, B0, C0, S0, sharedLocs, traverser, global_rules,
                   old_normalized, new_normalized, old_masked, new_masked, masker, prev>>

\* engine.py:104-128
Report ==
    /\ pc = "report"
    /\ Return(Invoke("DiffReport", <<cfg, differ, is_match, masker.ignored_count,
                         IF cfg.collect_statistics
                         THEN Invoke("_calculate_coverage", <<B, C, traverser.schema>>)
                         ELSE [none |-> TRUE]>>))
    /\ UNCHANGED <<cfg, hashOrder, B, C, S, B0, C0, S0, sharedLocs, traverser, global_rules,
                   old_normalized, new_normalized, old_masked, new_masked, masker,
                   differ, is_match, prev>>

\* The caller calls compare again with the same objects: the locals of the
\* call that returned are gone, the engine keeps its config only.
CallAgain ==
    /\ pc = "done"
    /\ calls < MaxCalls
    /\ pc' = "validate"
    /\ prev' = result
    /\ result' = Unset
    /\ sharedLocs' = {}
    /\ traverser' = Unset /\ global_rules' = Unset
    /\ old_normalized' = Unset /\ new_normalized' = Unset
    /\ old_masked' = Unset /\ new_masked' = Unset
    /\ masker' = Unset /\ differ' = Unset /\ is_match' = Unset
    /\ UNCHANGED <<cfg, hashOrder, B, C, S, B0, C0, S0, calls>>

Next == Validate \/ Resolve \/ Normalize \/ Mask \/ Diff \/ Report \/ CallAgain

-----------------------------------------------------------------------------
(* The calls checked: documents, schemas and configs of callers.             *)

\* Numbers and scalars of the documents
DocNums == {Num(n) : n \in 0..MaxNum}
Scalars == DocNums \cup {Str("a"), Str("A"), Null}

\* Objects with the keys a and b, and arrays of numbers
ObjDocs ==
    {EmptyObj} \cup {O1("a", v) : v \in Scalars}
    \cup {O2("a", v, "b", w) : v \in {Num(0), Num(1)}, w \in {Num(0), Num(1)}}
ArrDocs ==
    {EmptyArr} \cup {Arr(<<v>>) : v \in DocNums}
    \cup {Arr(<<v, w>>) : v \in {Num(0), Num(1)}, w \in DocNums}

\* Arrays of objects with the key sku
SkuDocs ==
    {Arr(<<O2("sku", Str("x"), "a", v)>>) : v \in DocNums}
    \cup {Arr(<<O2("sku", Str("x"), "a", v), O2("sku", Str(k), "a", Num(0))>>) :
            v \in DocNums, k \in {"x", "y"}}

\* A document nested three levels deep, and its like with another leaf
DeepDocs == {O1("a", O1("b", O1("a", v))) : v \in {Num(0), Num(1)}}

\* EngineConfig(...) of the callers
Configs ==
    { DefaultConfig,
      [DefaultConfig EXCEPT !.fail_fast = TRUE, !.trace_rule_application = TRUE] }
ShallowConfigs == {[DefaultConfig EXCEPT !.max_depth = d] : d \in {1, 2}}

\* A schema with the keyword type only, and the schema of an object's property
TypeOnly(type) == O1("type", Str(type))
Property(name, schema_node) ==
    O2("type", Str("object"), "properties", O1(name, schema_node))

\* Schemas for objects: without rules, with a tolerance, with a strategy
ObjSchemas ==
    { EmptyObj, TypeOnly("object"),
      Property("a", O1("x-migration-precision", Num(1))),
      Property("a", O1("x-migration-strategy", Str("lenient"))),
      Property("b", O1("x-migration-strategy", Str("ignore"))),
      Property("a", O1("x-migration-precision", Str("x"))) }

\* Schemas for arrays: strict with extra items let through, unordered, keyed
ArrSchemas ==
    { TypeOnly("array"),
      O2("type", Str("array"), "x-migration-ignore-extra-items", Bool(TRUE)),
      O3("type", Str("array"), "x-migration-array-mode", Str("unordered"),
         "x-migration-ignore-extra-items", Bool(TRUE)),
      O2("type", Str("array"), "x-migration-array-mode", Str("keyed")) }
SkuSchemas ==
    { O3("type", Str("array"), "x-migration-array-mode", Str("keyed"),
         "x-migration-array-key", Str("sku")),
      Put(O3("type", Str("array"), "x-migration-array-mode", Str("keyed"),
             "x-migration-array-key", Str("sku")),
          "x-migration-ignore-extra-items", Bool(TRUE)) }

\* Schemas with a $ref: to a definition, to none, to itself, to another file
RefSchema(ref, definition) ==
    Put(Property("a", O1("$ref", Str(ref))), "definitions", O1("Main", definition))
RefSchemas ==
    { RefSchema("#/definitions/Main", TypeOnly("integer")),
      RefSchema("#/definitions/Missing", TypeOnly("integer")),
      RefSchema("#/definitions/Main", O1("$ref", Str("#/definitions/Main"))),
      RefSchema("http://example.com/s.json", TypeOnly("integer")),
      RefSchema("other.json#/definitions/Main", TypeOnly("integer")) }

\* A schema whose property p has an object as default, and in it a property
\* q with a default.
DefaultSchemas ==
    { Property("p", O3("type", Str("object"), "x-migration-default", EmptyObj,
                       "properties", O1("q", O1("x-migration-default", Num(1))))),
      Property("p", O3("type", Str("object"),
                       "x-migration-default", O1("q", EmptyObj),
                       "properties",
                       O1("q", O1("properties",
                                  O1("a", O1("x-migration-default", Num(1))))))) }

\* The argument lists (config, old_json, new_json, schema_fragment)
Call(config, old_json, new_json, schema_fragment) ==
    [ config |-> config, old_json |-> old_json, new_json |-> new_json,
      schema_fragment |-> schema_fragment ]
Calls ==
    {Call(c, b, n, sch) : c \in Configs, b \in ObjDocs, n \in ObjDocs, sch \in ObjSchemas}
    \cup {Call(c, b, n, sch) : c \in Configs, b \in ArrDocs, n \in ArrDocs,
                               sch \in ArrSchemas}
    \cup {Call(c, b, n, sch) : c \in Configs, b \in SkuDocs, n \in SkuDocs,
                               sch \in SkuSchemas}
    \cup {Call(c, b, b, sch) : c \in Configs, b \in Scalars \cup {Bool(TRUE)},
                               sch \in {EmptyObj, TypeOnly("object")}}
    \cup {Call(c, b, n, sch) : c \in Configs, b \in {Null, Num(1)}, n \in {Null, Num(1)},
                               sch \in {Null, EmptyArr, Str("a"), Num(1)}}
    \cup {Call(c, b, n, sch) : c \in Configs, b \in {O1("a", Num(0))},
                               n \in {O1("a", Num(0)), O1("a", Num(1))},
                               sch \in RefSchemas}
    \cup {Call(c, b, n, sch) : c \in ShallowConfigs \cup Configs, b \in DeepDocs,
                               n \in DeepDocs, sch \in {EmptyObj, TypeOnly("object")}}
    \cup {Call(c, b, n, sch) : c \in ShallowConfigs \cup Configs,
                               b \in {EmptyObj, O1("p", EmptyObj)},
                               n \in {EmptyObj, O1("p", EmptyObj)},
                               sch \in DefaultSchemas}
    \cup {Call([DefaultConfig EXCEPT !.max_payload_size_mb = 0], b, b, EmptyObj) :
            b \in DocNums}

\* Any of the calls, in a process with either iteration order of its sets
Init == \E in \in Calls, order \in SetOrders : Entered(in, order)

Spec == Init /\ [][Next]_vars

-----------------------------------------------------------------------------
(* Calls that differ in the rule of one schema node                          *)

\* The locations of the nodes of a schema: the node itself, the nodes of its
\* properties and its items node, as _traverse_to_path reaches them
RECURSIVE SchemaNodeLocs(_, _)
SchemaNodeLocs(schema_node, loc) ==
    {loc}
    \cup (IF IsObj(Get(schema_node, "properties"))
          THEN UNION { SchemaNodeLocs(Get(schema_node, "properties").f[name],
                                      loc \o <<KeySeg("properties"), KeySeg(name)>>) :
                         name \in DOMAIN Get(schema_node, "properties").f }
          ELSE {})
    \cup (IF IsObj(Get(schema_node, "items"))
          THEN SchemaNodeLocs(Get(schema_node, "items"), Append(loc, KeySeg("items")))
          ELSE {})

\* The schema with keyword set to v at the node at loc
WithKeyword(schema, loc, keyword, v) ==
    WriteAt(schema, loc, Put(ReadAt(schema, loc), keyword, v))

\* Arrays of two objects, one without the key b, in either order
PairDocs == {Arr(<<O1("a", v), O2("a", w, "b", Num(0))>>) : v, w \in DocNums}
PairDocsSwapped == {Arr(<<O2("a", v, "b", Num(0)), O1("a", w)>>) : v, w \in DocNums}

\* An array schema whose items have a tolerance on a and no rule on b
ItemsSchema(mode) ==
    O3("type", Str("array"), "x-migration-array-mode", Str(mode),
       "items", O2("type", Str("object"),
                   "properties", O2("a", O1("x-migration-precision", Num(1)),
                                    "b", EmptyObj)))
MaskCalls ==
    {Call(DefaultConfig, b, n, ItemsSchema(mode)) :
        b \in PairDocs, n \in PairDocsSwapped, mode \in {"strict", "unordered", "keyed"}}
InitMask == \E in \in MaskCalls, order \in SetOrders : Entered(in, order)
SpecMask == InitMask /\ [][Next]_vars

\* Schemas whose property p has the alias k: k without a node of its own, k
\* declared as a property, k covered by additionalProperties
AliasSchemas ==
    { Property("p", O1("x-migration-alias", Str("k"))),
      O2("type", Str("object"),
         "properties", O2("p", O1("x-migration-alias", Str("k")),
                          "k", TypeOnly("integer"))),
      Put(Property("p", O1("x-migration-alias", Str("k"))),
          "additionalProperties", TypeOnly("integer")) }
AliasCalls ==
    {Call(c, b, n, sch) :
        c \in Configs,
        b \in {O1("k", v) : v \in DocNums}
              \cup {O2("k", v, "b", w) : v \in DocNums, w \in {Num(0), Num(1)}},
        n \in {EmptyObj} \cup {O1("p", v) : v \in DocNums} \cup {O1("k", v) : v \in DocNums}
              \cup {O2("p", v, "b", Num(0)) : v \in DocNums},
        sch \in AliasSchemas}
InitAlias == \E in \in AliasCalls, order \in SetOrders : Entered(in, order)
SpecAlias == InitAlias /\ [][Next]_vars

\* Schemas with a tolerance on the items of an array or on a property
PrecisionSchemas ==
    {O2("type", Str("array"), "items", O1("x-migration-precision", Num(p))) :
        p \in 0..MaxNum}
    \cup {Property("a", O1("x-migration-precision", Num(p))) : p \in 0..MaxNum}
PrecisionCalls ==
    {Call(c, b, n, sch) :
        c \in Configs,
        b \in {Arr(<<Num(0), v>>) : v \in DocNums} \cup {O2("a", Num(0), "b", Num(0))},
        n \in {Arr(<<v, w>>) : v, w \in DocNums}
              \cup {O2("a", v, "b", w) : v \in DocNums, w \in {Num(0), Num(1)}},
        sch \in PrecisionSchemas}
InitPrecision == \E in \in PrecisionCalls, order \in SetOrders : Entered(in, order)
SpecPrecision == InitPrecision /\ [][Next]_vars

\* Calls for the type check: one value of every type (an int and floats among
\* them) against another, at the root and in a field a, whose node casts or not
TypeVals ==
    { Num(1), Flt(1), Flt(2), Bool(TRUE), Str("1"), Str("a"), EmptyArr, EmptyObj }
TypeNodes ==
    { EmptyObj, O1("x-migration-strategy", Str("lenient")) }
    \cup { O1("x-migration-cast", Str(cast)) : cast \in CastTypes }
TypeCalls ==
    {Call(DefaultConfig, O1("a", b), O1("a", n), Property("a", node)) :
        b \in TypeVals, n \in TypeVals, node \in TypeNodes}
    \cup {Call(DefaultConfig, b, n, EmptyObj) : b \in TypeVals, n \in TypeVals}
InitTypes == \E in \in TypeCalls, order \in SetOrders : Entered(in, order)
SpecTypes == InitTypes /\ [][Next]_vars

\* Calls for the rules of one field.  A field b compared only when
\* $.old.a > 1; a field a under the exists strategy; a date-time a with a
\* tolerance, its format set or not.
WhenNode == O1("x-migration-when", Str("$.old.a > 1"))
WhenDocs ==
    {O1("a", Num(x)) : x \in {1, 2}}
    \cup {O2("a", Num(x), "b", y) : x \in {1, 2}, y \in {Num(0), Num(1), Null}}
ExistsNode == O1("x-migration-strategy", Str("exists"))
ExistsDocs ==
    {EmptyObj} \cup {O1("a", v) : v \in {Null, Num(0), Str("a"), EmptyObj}}
DatetimeNodes ==
    { O1("x-migration-datetime-tolerance", Str("5s")),
      O2("x-migration-datetime-tolerance", Str("5s"),
         "x-migration-datetime-format", Str("ISO8601")),
      O2("x-migration-datetime-tolerance", Str("1m"),
         "x-migration-datetime-format", Str("ISO8601")) }
DatetimeDocs == {O1("a", Str(value)) : value \in DOMAIN DatetimeTab["ISO8601"]}
FieldCalls ==
    {Call(DefaultConfig, b, n, Property("b", WhenNode)) : b \in WhenDocs, n \in WhenDocs}
    \cup {Call(DefaultConfig, b, n, Property("a", ExistsNode)) :
            b \in ExistsDocs, n \in ExistsDocs}
    \cup {Call(DefaultConfig, b, n, Property("a", node)) :
            b \in DatetimeDocs, n \in DatetimeDocs, node \in DatetimeNodes}
InitField == \E in \in FieldCalls, order \in SetOrders : Entered(in, order)
SpecField == InitField /\ [][Next]_vars

\* Calls for a numeric field a, with a precision or without: small integers
\* and the integers from 2^53 on
NumberVals == DocNums \cup {BigNum(n) : n \in 0..MaxNum}
NumberNodes == {EmptyObj} \cup {O1("x-migration-precision", Num(p)) : p \in {0, 1, 2}}
NumberCalls ==
    {Call(DefaultConfig, O1("a", b), O1("a", n), Property("a", node)) :
        b \in NumberVals, n \in NumberVals, node \in NumberNodes}
InitNumbers == \E in \in NumberCalls, order \in SetOrders : Entered(in, order)
SpecNumbers == InitNumbers /\ [][Next]_vars

\* Calls for arrays keyed by sku: one to three items, their keys strings, a
\* number and a bool, alike or not; extra items let through or not
KeyedItems ==
    {O2("sku", k, "a", Num(0)) : k \in {Str("x"), Str("y"), Num(1), Bool(TRUE)}}
    \cup {O2("sku", Str("x"), "a", Num(1))}
KeyedDocs ==
    {Arr(<<i>>) : i \in KeyedItems}
    \cup {Arr(<<i, j>>) : i, j \in KeyedItems}
    \cup {Arr(<<i, i, i>>) : i \in {O2("sku", Str("x"), "a", Num(0))}}
KeyedCalls ==
    {Call(DefaultConfig, b, n, sch) : b \in KeyedDocs, n \in KeyedDocs, sch \in SkuSchemas}
InitKeyed == \E in \in KeyedCalls, order \in SetOrders : Entered(in, order)
SpecKeyed == InitKeyed /\ [][Next]_vars

\* Calls with global ignores: documents with a field a, with or without the
\* fields updatedAt and b that the patterns delete; b may have the ignore
\* strategy as well
IgnoresDocs ==
    {O1("a", v) : v \in {Num(0), Num(1)}}
    \cup {O2("a", v, "updatedAt", w) : v \in {Num(0), Num(1)}, w \in {Str("x"), Str("y")}}
    \cup {O2("a", Num(0), "b", w) : w \in {Num(0), Num(1)}}
IgnoresSchemas ==
    { Put(TypeOnly("object"), "x-migration-global-ignores", Arr(<<Str("$..updatedAt")>>)),
      Put(TypeOnly("object"), "x-migration-global-ignores",
          Arr(<<Str("$..updatedAt"), Str("$..b")>>)),
      Put(Property("b", O1("x-migration-strategy", Str("ignore"))),
          "x-migration-global-ignores", Arr(<<Str("$..updatedAt")>>)) }
IgnoresCalls ==
    {Call(DefaultConfig, b, n, sch) :
        b \in IgnoresDocs, n \in IgnoresDocs, sch \in IgnoresSchemas}
InitIgnores == \E in \in IgnoresCalls, order \in SetOrders : Entered(in, order)
SpecIgnores == InitIgnores /\ [][Next]_vars

\* Calls for unordered arrays of numbers: up to two items (small ones and
\* the integers from 2^53 on) or three with one of them twice; compared by
\* plain equality, within a precision of 1, or with a flag that lets
\* unpaired items through
Unordered == O2("type", Str("array"), "x-migration-array-mode", Str("unordered"))
ArraysOf(vals) ==
    {EmptyArr} \cup {Arr(<<v>>) : v \in vals} \cup {Arr(<<v, w>>) : v, w \in vals}
TripleDocs == {Arr(<<Num(0), Num(0), Num(1)>>), Arr(<<Num(0), Num(1), Num(1)>>),
               Arr(<<Num(1), Num(0), Num(0)>>)}
UnorderedFlags ==
    {"x-migration-ignore-extra-items", "x-migration-ignore-missing-items",
     "x-migration-array-subset"}
UnorderedCalls ==
    {Call(DefaultConfig, b, n, Unordered) :
        b, n \in ArraysOf({Num(0), Num(1), BigNum(0), BigNum(1)}) \cup TripleDocs}
    \cup {Call(c, b, n,
               Put(Unordered, "items", O1("x-migration-precision", Num(1)))) :
            c \in Configs, b, n \in ArraysOf({Num(0), Num(1), Num(2)})}
    \cup {Call(c, b, n, Put(Unordered, flag, Bool(TRUE))) :
            c \in Configs, b, n \in ArraysOf({Num(0), Num(1)}), flag \in UnorderedFlags}
InitUnordered == \E in \in UnorderedCalls, order \in SetOrders : Entered(in, order)
SpecUnordered == InitUnordered /\ [][Next]_vars

\* Calls for an object whose root node hands its rules down: a string field a,
\* or a field a holding a string field b, under a root that declares
\* x-migration-inherit-rules with a strategy or a string rule
InheritingRoots ==
    { O1("x-migration-inherit-rules", Bool(TRUE)),
      O2("x-migration-inherit-rules", Bool(TRUE), "x-migration-strategy", Str("lenient")),
      O2("x-migration-inherit-rules", Bool(TRUE),
         "x-migration-case-insensitive", Bool(TRUE)),
      O2("x-migration-inherit-rules", Bool(TRUE),
         "x-migration-trim-whitespace", Bool(TRUE)),
      O1("x-migration-case-insensitive", Bool(TRUE)) }
InheritedNodes ==
    { TypeOnly("string"),
      O2("type", Str("string"), "x-migration-case-insensitive", Bool(FALSE)),
      O2("type", Str("string"), "x-migration-strategy", Str("strict")),
      O2("type", Str("string"), "x-migration-inherit-rules", Bool(TRUE)),
      Property("b", TypeOnly("string")) }
InheritSchemas ==
    {Put(Put(root, "type", Str("object")), "properties", O1("a", node)) :
        root \in InheritingRoots, node \in InheritedNodes}
InheritStrings == {Str("a"), Str("A"), Str(" a ")}
InheritDocs ==
    {O1("a", v) : v \in InheritStrings} \cup {O1("a", O1("b", v)) : v \in InheritStrings}
InheritCalls ==
    {Call(DefaultConfig, b, n, sch) : b, n \in InheritDocs, sch \in InheritSchemas}
InitInherit == \E in \in InheritCalls, order \in SetOrders : Entered(in, order)
SpecInherit == InitInherit /\ [][Next]_vars

\* Calls for arrays of items with rules on their fields, a precision of 1 on a
\* and case-insensitive on b: compared by index or paired by sku, the items of
\* the two arrays having the same sku at the same index
RuledItems ==
    O2("type", Str("object"),
       "properties", O2("a", O1("x-migration-precision", Num(1)),
                        "b", O1("x-migration-case-insensitive", Bool(TRUE))))
RuledSchemas ==
    {Put(O3("type", Str("array"), "x-migration-array-mode", Str(mode),
            "x-migration-array-key", Str("sku")), "items", RuledItems) :
        mode \in {"strict", "keyed"}}
RuledItem(sku, v, s) == O3("sku", Str(sku), "a", Num(v), "b", Str(s))
RuledDocs ==
    {Arr(<<RuledItem("x", v, s)>>) : v \in 0..2, s \in {"A", "a"}}
    \cup {Arr(<<RuledItem("x", v, s), RuledItem("y", 0, "a")>>) : v \in 0..2, s \in {"A", "a"}}
RuledCalls ==
    {Call(DefaultConfig, b, n, sch) : b, n \in RuledDocs, sch \in RuledSchemas}
InitRuled == \E in \in RuledCalls, order \in SetOrders : Entered(in, order)
SpecRuled == InitRuled /\ [][Next]_vars

\* Calls for arrays in strict mode, of up to three numbers, the candidate
\* shorter, longer or as long as the baseline; missing or extra items let
\* through or not
TailSchemas ==
    { TypeOnly("array"),
      O2("type", Str("array"), "x-migration-ignore-missing-items", Bool(TRUE)),
      O2("type", Str("array"), "x-migration-ignore-extra-items", Bool(TRUE)) }
TailCalls ==
    {Call(c, b, n, sch) :
        c \in Configs, b, n \in ArraysOf({Num(0), Num(1)}) \cup TripleDocs,
        sch \in TailSchemas}
InitTail == \E in \in TailCalls, order \in SetOrders : Entered(in, order)
SpecTail == InitTail /\ [][Next]_vars

\* Calls for a datetime field a whose tolerance is no duration: a string that
\* parse_duration rejects or a number, with the format or without; and the
\* valid tolerance 5s for comparison
ToleranceNodes ==
    {O1("x-migration-datetime-tolerance", tolerance) :
        tolerance \in {Str("bogus"), Str("5s"), Num(5)}}
    \cup {O2("x-migration-datetime-tolerance", tolerance,
              "x-migration-datetime-format", Str("ISO8601")) :
            tolerance \in {Str("bogus"), Str("5s"), Num(5)}}
ToleranceCalls ==
    {Call(DefaultConfig, b, n, Property("a", node)) :
        b, n \in DatetimeDocs, node \in ToleranceNodes}
InitTolerance == \E in \in ToleranceCalls, order \in SetOrders : Entered(in, order)
SpecTolerance == InitTolerance /\ [][Next]_vars

\* Calls with references in the schema: to a definition, to none, to another
\* file, to a definition that is a reference to itself, that holds one to
\* itself, or that refers to one referring back; resolved to the default
\* depth or to a depth of 1 to 4
Ref(ref) == O1("$ref", Str(ref))
CyclicSchemas ==
    { RefSchema("#/definitions/Main", Ref("#/definitions/Main")),
      RefSchema("#/definitions/Main", Property("a", Ref("#/definitions/Main"))),
      Put(Property("a", Ref("#/definitions/Main")), "definitions",
          O2("Main", Ref("#/definitions/Other"), "Other", Ref("#/definitions/Main"))) }
ChainSchema ==
    Put(Property("a", Ref("#/definitions/Main")), "definitions",
        O2("Main", Ref("#/definitions/Other"), "Other", TypeOnly("integer")))
DepthConfigs == {DefaultConfig} \cup {[DefaultConfig EXCEPT !.max_depth = d] : d \in 1..4}
RefCalls ==
    {Call(c, O1("a", Num(0)), O1("a", n), sch) :
        c \in DepthConfigs, n \in {Num(0), Num(1)},
        sch \in RefSchemas \cup CyclicSchemas \cup {ChainSchema}}
InitRefs == \E in \in RefCalls, order \in SetOrders : Entered(in, order)
SpecRefs == InitRefs /\ [][Next]_vars

\* Calls for arrays keyed by sku some of whose items have no key: objects
\* without the field sku and numbers, next to items with the key
KeylessItems ==
    { O2("sku", Str("x"), "a", Num(0)), O2("sku", Str("x"), "a", Num(1)),
      O2("sku", Str("y"), "a", Num(0)), O1("a", Num(0)), Num(0) }
KeylessCalls ==
    {Call(DefaultConfig, b, n,
          O3("type", Str("array"), "x-migration-array-mode", Str("keyed"),
             "x-migration-array-key", Str("sku"))) :
        b, n \in ArraysOf(KeylessItems)}
InitKeyless == \E in \in KeylessCalls, order \in SetOrders : Entered(in, order)
SpecKeyless == InitKeyless /\ [][Next]_vars

-----------------------------------------------------------------------------
(* The properties of compare                                                 *)

\* C1: every DiffReport that compare returns has is_match true exactly when
\* its diffs list is empty, however many warnings it carries.
C1_IsMatchIffNoDiffs ==
    pc = "done" /\ result.kind = "report"
    => (result.is_match <=> result.diffs = <<>>)

\* A report that matches although it carries a warning
C1_MatchWithWarnings ==
    /\ pc = "done" /\ result.kind = "report"
    /\ result.warnings # <<>> /\ result.diffs = <<>> /\ result.is_match

\* C2: when compare has returned, the caller's baseline, candidate and schema
\* equal their values before the call.
C2_NonMutation ==
    pc = "done" => B = B0 /\ C = C0 /\ S = S0

\* C3: a second call of compare with the same objects, in the same process,
\* returns what the first call returned: same is_match, counters, diffs in
\* the same order, warnings and trace.
C3_SecondCallSame ==
    pc = "done" /\ calls >= 2 => result = prev

\* A second call has returned a report with two diffs
C3_SecondCallReturned ==
    /\ pc = "done" /\ calls >= 2
    /\ result.kind = "report" /\ Len(result.diffs) >= 2

\* C3 as stated, for any two calls with the same inputs and config: a call in
\* a process with another iteration order of its sets returns the same too.
C3_AnyTwoCalls ==
    pc = "done"
    => \A order \in SetOrders : Compare(cfg, order, B0, C0, S0).ret = result

\* The x-migration-* keywords the engine reads
RuleKeywords ==
    { "x-migration-global-ignores", "x-migration-allow-null-as-missing",
      "x-migration-empty-string-as-null", "x-migration-strategy",
      "x-migration-alias", "x-migration-precision", "x-migration-case-insensitive",
      "x-migration-trim-whitespace", "x-migration-cast", "x-migration-pattern",
      "x-migration-datetime-format", "x-migration-datetime-tolerance",
      "x-migration-default", "x-migration-enum-map", "x-migration-array-mode",
      "x-migration-array-key", "x-migration-order-by",
      "x-migration-ignore-extra-items", "x-migration-ignore-missing-items",
      "x-migration-array-subset", "x-migration-duplicate-handling",
      "x-migration-inherit-rules", "x-migration-when" }

\* Some node of the schema carries an x-migration-* rule
RECURSIVE HasRule(_)
HasRule(node) ==
    IF IsObj(node)
    THEN \E key \in DOMAIN node.f : key \in RuleKeywords \/ HasRule(node.f[key])
    ELSE IsArr(node) /\ \E j \in 1..Len(node.e) : HasRule(node.e[j])

\* The $ref strings of a schema
RECURSIVE RefsOf(_)
RefsOf(node) ==
    IF IsObj(node)
    THEN UNION { IF key = "$ref" /\ IsStr(node.f[key]) THEN {node.f[key].s}
                 ELSE RefsOf(node.f[key]) : key \in DOMAIN node.f }
    ELSE IF IsArr(node) THEN UNION {RefsOf(node.e[j]) : j \in 1..Len(node.e)}
    ELSE {}

\* C4: for every document B and every object schema without x-migration-*
\* rule (and without $ref, B within the size limit), compare(B, B, S) returns
\* a report with is_match true and no diffs.
C4_Reflexive ==
    /\ pc = "done" /\ B0 = C0
    /\ IsObj(S0) /\ ~HasRule(S0) /\ RefsOf(S0) = {}
    /\ ~(result.kind = "error" /\ result.code = "PAYLOAD_SIZE_ERROR")
    => result.kind = "report" /\ result.is_match /\ result.diffs = <<>>

\* C5: if compare(B, C, S) matches, then compare(B, C, S') matches for every
\* S' that is S with x-migration-strategy ignore set on one schema node.
C5_MaskSubsumption ==
    pc = "done" /\ result.kind = "report" /\ result.is_match
    => \A loc \in SchemaNodeLocs(S0, <<>>) :
          LET ret == Compare(cfg, hashOrder, B0, C0,
                             WithKeyword(S0, loc, "x-migration-strategy",
                                         Str("ignore"))).ret
          IN ret.kind = "report" => ret.is_match

\* The properties p of the schema's root with an alias, with the alias
AliasPairs(schema) ==
    LET props == Get(schema, "properties") IN
    IF IsObj(props)
    THEN { <<name, Get(props.f[name], "x-migration-alias").s>> :
             name \in {x \in DOMAIN props.f :
                         IsStr(Get(props.f[x], "x-migration-alias"))} }
    ELSE {}

\* The object with its key k renamed to p
Renamed(o, k, p) ==
    Obj([x \in (DOMAIN o.f \ {k}) \cup {p} |-> IF x = p THEN o.f[k] ELSE o.f[x]])

\* C6: for a property p with alias k and a baseline with the key k (and not
\* p), compare(B, C, S) has the is_match, diffs and warnings of
\* compare(B', C, S), B' being B with k renamed to p.
C6_AliasSymmetry ==
    pc = "done" /\ result.kind = "report" /\ IsObj(B0)
    => \A pair \in AliasPairs(S0) :
          Has(B0, pair[2]) /\ ~Has(B0, pair[1])
          => LET ret == Compare(cfg, hashOrder, Renamed(B0, pair[2], pair[1]),
                                C0, S0).ret
             IN /\ ret.kind = "report"
                /\ ret.is_match = result.is_match
                /\ ret.diffs = result.diffs
                /\ ret.warnings = result.warnings

\* The PRECISION_EXCEEDED entries of what compare returned: where, and the
\* two values
Exceeded(ret) ==
    IF ret.kind = "report"
    THEN { <<ret.diffs[j].path, ret.diffs[j].old_value, ret.diffs[j].new_value>> :
             j \in {i \in 1..Len(ret.diffs) : ret.diffs[i].type = "PRECISION_EXCEEDED"} }
    ELSE {}

\* The nodes of a schema with a number as x-migration-precision
PrecisionLocs(schema) ==
    { loc \in SchemaNodeLocs(schema, <<>>) :
        IsNum(Get(ReadAt(schema, loc), "x-migration-precision")) }

\* The PRECISION_EXCEEDED entries of the call with the precision of the node
\* at loc raised to p2 are among those of the call that returned.
RaisedWithin(loc, p2) ==
    Exceeded(Compare(cfg, hashOrder, B0, C0,
                     WithKeyword(S0, loc, "x-migration-precision", Num(p2))).ret)
        \subseteq Exceeded(result)

\* C7: with fail_fast off, raising the x-migration-precision of one node
\* adds no PRECISION_EXCEEDED entry (an entry being its path and its two
\* values).
C7_PrecisionMonotone ==
    pc = "done" /\ ~cfg.fail_fast
    => \A loc \in PrecisionLocs(S0) :
          \A p2 \in Get(ReadAt(S0, loc), "x-migration-precision").n..MaxNum :
             RaisedWithin(loc, p2)

\* With fail_fast off, a call with an entry that a higher precision removes
C7_RaisedRemoves ==
    /\ pc = "done" /\ ~cfg.fail_fast /\ Exceeded(result) # {}
    /\ \E loc \in PrecisionLocs(S0) :
          Exceeded(Compare(cfg, hashOrder, B0, C0,
                           WithKeyword(S0, loc, "x-migration-precision",
                                       Num(MaxNum))).ret) = {}

\* C7 as stated, fail_fast on or off
C7_AnyConfig ==
    pc = "done"
    => \A loc \in PrecisionLocs(S0) :
          \A p2 \in Get(ReadAt(S0, loc), "x-migration-precision").n..MaxNum :
             RaisedWithin(loc, p2)

\* The codes of an ErrorResponse
ErrorCodes ==
    { "VALIDATION_ERROR", "SCHEMA_PARSE_ERROR", "PAYLOAD_SIZE_ERROR",
      "MAX_DEPTH_ERROR", "PROCESSING_ERROR", "TIMEOUT_ERROR" }

\* C8: compare returns a report or an ErrorResponse with success false and
\* one of the six codes; a schema that is not an object gives
\* VALIDATION_ERROR with no stage of the pipeline run.
C8_NeverRaises ==
    pc = "done"
    => /\ result.kind \in {"report", "error"}
       /\ result.kind = "error"
          => ~result.success /\ result.code \in ErrorCodes
       /\ ~IsObj(S0)
          => /\ result.kind = "error" /\ result.code = "VALIDATION_ERROR"
             /\ traverser = Unset /\ old_normalized = Unset
             /\ masker = Unset /\ differ = Unset

\* A failure inside a stage: the masker was at work and compare returned an
\* ErrorResponse
C8_StageFailure ==
    pc = "done" /\ result.kind = "error" /\ masker # Unset

\* A $ref of the schema that does not start with '#/', or whose pointer
\* leads nowhere in the schema
BadRef(schema, ref) ==
    \/ ~RefTab[ref].internal
    \/ ~WalkPointer(schema, RefTab[ref].parts).found

\* C9: a schema with an external or unresolvable $ref makes compare return
\* an ErrorResponse with code SCHEMA_PARSE_ERROR.
C9_BadRefIsParseError ==
    /\ pc = "done" /\ IsObj(S0) /\ B0 # Null /\ C0 # Null
    /\ \E ref \in RefsOf(S0) : BadRef(S0, ref)
    => result.kind = "error" /\ result.code = "SCHEMA_PARSE_ERROR"

\* Nesting depth of a document: containers on the way to its deepest value
RECURSIVE Depth(_)
Depth(v) ==
    IF IsObj(v)
    THEN 1 + (IF DOMAIN v.f = {} THEN 0
              ELSE CHOOSE d \in {Depth(v.f[k]) : k \in DOMAIN v.f} :
                      \A k \in DOMAIN v.f : Depth(v.f[k]) <= d)
    ELSE IF IsArr(v)
    THEN 1 + (IF v.e = <<>> THEN 0
              ELSE CHOOSE d \in {Depth(v.e[j]) : j \in 1..Len(v.e)} :
                      \A j \in 1..Len(v.e) : Depth(v.e[j]) <= d)
    ELSE 0

\* C10: documents nested deeper than max_depth make compare return an
\* ErrorResponse with code MAX_DEPTH_ERROR.
C10_DepthExceeded ==
    /\ pc = "done" /\ old_masked # Unset
    /\ (Depth(old_masked) > cfg.max_depth \/ Depth(new_masked) > cfg.max_depth)
    => result.kind = "error" /\ result.code = "MAX_DEPTH_ERROR"

\* C11: whatever JSON value stands at the root of baseline and candidate,
\* with an object as schema (no rule and no $ref in it) and payloads within
\* the size cap and the depth limit, compare returns a DiffReport.
C11_AnyJsonValue ==
    /\ pc = "done" /\ IsObj(S0) /\ ~HasRule(S0) /\ RefsOf(S0) = {}
    /\ ~ExceedsSize(B0, cfg.max_payload_size_mb)
    /\ ~ExceedsSize(C0, cfg.max_payload_size_mb)
    /\ Depth(B0) <= cfg.max_depth /\ Depth(C0) <= cfg.max_depth
    => result.kind = "report"

\* C12: with fail_fast the report holds at most one DiffEntry, and exactly
\* one when the documents do not match.
C12_FailFastOneDiff ==
    pc = "done" /\ result.kind = "report" /\ cfg.fail_fast
    => /\ Len(result.diffs) <= 1
       /\ (~result.is_match => Len(result.diffs) = 1)

\* The entries of the report at a path, and below it
DiffsAt(path) == {j \in 1..Len(result.diffs) : result.diffs[j].path = path}
DiffsBelow(path) ==
    {j \in 1..Len(result.diffs) :
        IsPrefix(path, result.diffs[j].path) /\ result.diffs[j].path # path}

\* The places where the differ meets two values of the masked documents under
\* the strict or lenient strategy: the root, and every key the two root
\* objects share.  node is the schema node of the place.
TypedSites ==
    {[path |-> RootPath, old |-> old_masked, new |-> new_masked, node |-> S0]}
    \cup (IF IsObj(old_masked) /\ IsObj(new_masked)
          THEN {[path |-> <<KeySeg(k)>>, old |-> old_masked.f[k], new |-> new_masked.f[k],
                 node |-> Get(Get(S0, "properties"), k)] :
                    k \in DOMAIN old_masked.f \cap DOMAIN new_masked.f}
          ELSE {})

\* The value the type check sees: the cast of the node applied
AfterCast(value, node) ==
    IF Truthy(Get(node, "x-migration-cast")) /\ InEnum(Get(node, "x-migration-cast"), CastTypes)
    THEN safe_cast(value, Get(node, "x-migration-cast").s)
    ELSE value

FieldNode(name) == Get(Get(S0, "properties"), name)

\* C14: a field whose node has an x-migration-when that is false of the
\* root pair {old, new} gets no diff at or below its path.
C14_ConditionalSkip ==
    pc = "done" /\ result.kind = "report"
    => \A name \in {"a", "b"} :
          /\ Has(FieldNode(name), "x-migration-when")
          /\ ~evaluate_condition(O2("old", old_masked, "new", new_masked),
                                 Get(FieldNode(name), "x-migration-when"))
          => DiffsAt(<<KeySeg(name)>>) \cup DiffsBelow(<<KeySeg(name)>>) = {}

\* The field a is there: the key is, and its value is not null
Present(doc) == Has(doc, "a") /\ Get(doc, "a") # Null

\* C15: a field under the exists strategy gets no diff iff it is present in
\* both documents or in neither (null counts as absent); the diff it gets
\* otherwise is a VALUE_MISMATCH citing 'x-migration-strategy: exists'.
C15_ExistsStrategy ==
    /\ pc = "done" /\ result.kind = "report"
    /\ Get(FieldNode("a"), "x-migration-strategy") = Str("exists")
    => LET entries == DiffsAt(<<KeySeg("a")>>) \cup DiffsBelow(<<KeySeg("a")>>) IN
       /\ entries = {} <=> (Present(B0) <=> Present(C0))
       /\ \A j \in entries :
             /\ result.diffs[j].type = "VALUE_MISMATCH"
             /\ result.diffs[j].rule_applied = Rule("x-migration-strategy", Str("exists"))

\* C16: a date-time field with a tolerance T, its format unset or ISO8601,
\* matches iff the two instants are at most T seconds apart, and gets
\* exactly one diff, a DATETIME_EXCEEDED, when they are further apart.
C16_DatetimeTolerance ==
    /\ pc = "done" /\ result.kind = "report"
    /\ Has(FieldNode("a"), "x-migration-datetime-tolerance")
    /\ GetD(FieldNode("a"), "x-migration-datetime-format", Str("ISO8601")) = Str("ISO8601")
    => LET old_dt == DatetimeTab["ISO8601"][Get(B0, "a").s]
           new_dt == DatetimeTab["ISO8601"][Get(C0, "a").s]
           T == DurationTab[Get(FieldNode("a"), "x-migration-datetime-tolerance").s].seconds
       IN IF Abs(old_dt - new_dt) <= T
          THEN result.is_match /\ result.diffs = <<>>
          ELSE /\ Len(result.diffs) = 1
               /\ result.diffs[1].type = "DATETIME_EXCEEDED"
               /\ result.diffs[1].path = <<KeySeg("a")>>

\* |old - new| <= p of two integers and a small p, computed exactly: two
\* integers on different sides of 2^53 are further apart than any p here
WithinExactly(old_v, new_v, p) == old_v.hi = new_v.hi /\ Abs(old_v.n - new_v.n) <= p

\* C17: a numeric field with precision p matches iff |old - new| <= p, and
\* without a precision iff the numbers are equal; a field that does not
\* match under a precision gets exactly one diff, a PRECISION_EXCEEDED
\* citing 'x-migration-precision: <p>'.
C17_PrecisionTolerance ==
    /\ pc = "done" /\ result.kind = "report"
    /\ IsNum(Get(B0, "a")) /\ IsNum(Get(C0, "a"))
    => LET precision == Get(FieldNode("a"), "x-migration-precision")
           within == WithinExactly(Get(B0, "a"), Get(C0, "a"),
                                   IF precision = Null THEN 0 ELSE precision.n)
       IN /\ result.is_match <=> within
          /\ result.diffs = <<>> <=> within
          /\ ~within /\ precision # Null
             => /\ Len(result.diffs) = 1
                /\ result.diffs[1].type = "PRECISION_EXCEEDED"
                /\ result.diffs[1].path = <<KeySeg("a")>>
                /\ result.diffs[1].rule_applied.name = "x-migration-precision"
                /\ PyEq(result.diffs[1].rule_applied.arg, precision)

\* The sku values of the items of an array, and how often one occurs
SkuValues(array) == {array.e[j].f.sku : j \in 1..Len(array.e)}
Occurrences(array, key) == Cardinality({j \in 1..Len(array.e) : array.e[j].f.sku = key})

\* The entries of a list of the report (diffs or warnings) of one type at
\* one path
EntriesOf(entries, type, path) ==
    {j \in 1..Len(entries) : entries[j].type = type /\ entries[j].path = path}

\* C18: keyed by sku with ignore_extra_items, if every key occurs once in
\* its array and items with equal keys are equal, the result is a match
\* without diffs and with exactly one ARRAY_ITEM_EXTRA warning for every key
\* that only the candidate has.
C18_KeyedPairing ==
    /\ pc = "done" /\ result.kind = "report"
    /\ Get(S0, "x-migration-array-mode") = Str("keyed")
    /\ Get(S0, "x-migration-array-key") = Str("sku")
    /\ Get(S0, "x-migration-ignore-extra-items") = Bool(TRUE)
    /\ \A key \in SkuValues(B0) : Occurrences(B0, key) = 1
    /\ \A key \in SkuValues(C0) : Occurrences(C0, key) = 1
    /\ \A i \in 1..Len(B0.e), j \in 1..Len(C0.e) :
          B0.e[i].f.sku = C0.e[j].f.sku => B0.e[i] = C0.e[j]
    => /\ result.is_match /\ result.diffs = <<>>
       /\ \A key \in SkuValues(C0) \ SkuValues(B0) :
             Cardinality(EntriesOf(result.warnings, "ARRAY_ITEM_EXTRA",
                                   <<FilterSeg(key)>>)) = 1
       /\ Len(result.warnings) = Cardinality(SkuValues(C0) \ SkuValues(B0))

\* C19: keyed by sku with duplicate_handling error, a key that occurs n
\* times in an array yields n - 1 DUPLICATE_KEY diffs at the path of the
\* array, each citing 'x-migration-array-key: sku', and no match.
C19_DuplicateKeys ==
    /\ pc = "done" /\ result.kind = "report"
    /\ Get(S0, "x-migration-array-mode") = Str("keyed")
    /\ Get(S0, "x-migration-array-key") = Str("sku")
    /\ GetD(S0, "x-migration-duplicate-handling", Str("error")) = Str("error")
    => LET collisions == Len(B0.e) - Cardinality(SkuValues(B0))
                         + Len(C0.e) - Cardinality(SkuValues(C0))
           recorded == {j \in 1..Len(result.diffs) :
                            result.diffs[j].type = "DUPLICATE_KEY"}
       IN /\ Cardinality(recorded) = collisions
          /\ \A j \in recorded :
                /\ result.diffs[j].path = RootPath
                /\ result.diffs[j].rule_applied = Rule("x-migration-array-key", Str("sku"))
          /\ collisions > 0 => ~result.is_match

\* A document without the fields that the patterns of the schema name
WithoutIgnored(doc) ==
    DeleteEach(doc, Get(S0, "x-migration-global-ignores").e, 1)

\* C20: when the global ignores delete a field of the baseline or of the
\* candidate and the documents match otherwise, the report is a match
\* without diffs whose summary counts at least one ignored field.
C20_IgnoredCounter ==
    /\ pc = "done" /\ result.kind = "report"
    /\ Has(S0, "x-migration-global-ignores")
    /\ (WithoutIgnored(B0) # B0 \/ WithoutIgnored(C0) # C0)
    /\ WithoutIgnored(B0) = WithoutIgnored(C0)
    => /\ result.is_match /\ result.diffs = <<>>
       /\ result.summary.fields_ignored >= 1

\* How often a value occurs among the items of an array
CountOf(array, v) == Cardinality({j \in 1..Len(array.e) : array.e[j] = v})

\* The candidate is a permutation of the baseline: equal as multisets
Permutation(old_array, new_array) ==
    /\ Len(old_array.e) = Len(new_array.e)
    /\ \A j \in 1..Len(old_array.e) :
          CountOf(old_array, old_array.e[j]) = CountOf(new_array, old_array.e[j])

\* C21: an unordered array without ignore or subset flags and without rules
\* on its items matches iff the candidate is a permutation of the baseline.
C21_UnorderedIsMultiset ==
    /\ pc = "done" /\ result.kind = "report"
    /\ S0 = Unordered /\ IsArr(B0) /\ IsArr(C0)
    => (result.is_match <=> Permutation(B0, C0))

\* The entries of the report's diffs of one type
DiffsOfType(type) == {j \in 1..Len(result.diffs) : result.diffs[j].type = type}

\* A root array in strict mode whose items have no rules
StrictRoot ==
    /\ IsArr(B0) /\ IsArr(C0) /\ IsObj(S0)
    /\ Get(S0, "type") = Str("array")
    /\ GetD(S0, "x-migration-array-mode", Str("strict")) = Str("strict")
    /\ ~Has(S0, "items")

\* The first array is a proper prefix of the second
ProperPrefix(short, long) ==
    Len(short.e) < Len(long.e) /\ SubSeq(long.e, 1, Len(short.e)) = short.e

\* What C22 says of the report, whatever the config
ExtraTailReported ==
    IF Truthy(Get(S0, "x-migration-ignore-extra-items"))
    THEN /\ result.is_match /\ result.diffs = <<>>
         /\ Len(result.warnings) = 1
         /\ result.warnings[1].type = "ARRAY_ITEM_EXTRA"
    ELSE /\ Cardinality(DiffsOfType("ARRAY_LENGTH_MISMATCH")) = 1
         /\ Cardinality(DiffsOfType("ARRAY_ITEM_EXTRA")) = Len(C0.e) - Len(B0.e)
         /\ \A i \in Len(B0.e)..(Len(C0.e) - 1) :
               Cardinality(EntriesOf(result.diffs, "ARRAY_ITEM_EXTRA", <<IdxSeg(i)>>)) = 1
         /\ Len(result.diffs) = 1 + Len(C0.e) - Len(B0.e)

\* C22 (amended): with fail_fast off, a strict array whose candidate is the
\* baseline with a tail added gives, with ignore_extra_items, one
\* ARRAY_ITEM_EXTRA warning, no diff and a match; without it, one
\* ARRAY_ITEM_EXTRA diff for every extra index and one ARRAY_LENGTH_MISMATCH,
\* and no other diff.
C22_ExtraTail ==
    /\ pc = "done" /\ result.kind = "report" /\ ~cfg.fail_fast
    /\ StrictRoot /\ ProperPrefix(B0, C0)
    /\ ~Truthy(Get(S0, "x-migration-ignore-missing-items"))
    => ExtraTailReported

\* C22 as stated: the same for every config
C22_AnyConfig ==
    /\ pc = "done" /\ result.kind = "report"
    /\ StrictRoot /\ ProperPrefix(B0, C0)
    /\ ~Truthy(Get(S0, "x-migration-ignore-missing-items"))
    => ExtraTailReported

\* A candidate two items longer was compared without ignore_extra_items
C22_TwoExtraItems ==
    /\ pc = "done" /\ result.kind = "report" /\ ~cfg.fail_fast
    /\ StrictRoot /\ ProperPrefix(B0, C0) /\ Len(C0.e) = Len(B0.e) + 2
    /\ ~Has(S0, "x-migration-ignore-extra-items")
    /\ Cardinality(DiffsOfType("ARRAY_ITEM_EXTRA")) = 2

\* The rule fields an inheriting parent hands down, with the schema key that
\* declares each
InheritedFields ==
    [ strategy |-> "x-migration-strategy",
      case_insensitive |-> "x-migration-case-insensitive",
      trim_whitespace |-> "x-migration-trim-whitespace",
      inherit_rules |-> "x-migration-inherit-rules" ]

\* The rules of the root node of the schema, as Differ.diff gets them at $
RootRules == extract_field_rules(S0, DefaultRules)

\* The field of the report's rules that a declared key sets
Declared(schema_node, field) ==
    LET v == Get(schema_node, InheritedFields[field]) IN
    IF field = "strategy" THEN v.s ELSE Truthy(v)

\* C23: under a parent whose inherit_rules is true, extract_field_rules gives
\* the parent's strategy, case_insensitive, trim_whitespace and inherit_rules
\* for each of them the node does not declare, and the node's own value for
\* each it declares.
C23_InheritedRules ==
    /\ pc = "done" /\ result.kind = "report"
    /\ RootRules.inherit_rules
    => \A name \in DOMAIN Get(S0, "properties").f : \A field \in DOMAIN InheritedFields :
          extract_field_rules(FieldNode(name), RootRules)[field] =
             IF Has(FieldNode(name), InheritedFields[field])
             THEN Declared(FieldNode(name), field)
             ELSE RootRules[field]

\* What the rules of RuledItems allow between two items: a within 1, b alike
\* but for case
Governed(old_item, new_item) ==
    /\ Abs(Get(old_item, "a").n - Get(new_item, "a").n) <= 1
    /\ Lower(Get(old_item, "b").s) = Lower(Get(new_item, "b").s)

\* C24: the rules at items.properties.<f> govern the fields of the items
\* paired by key as they govern the items at the same index in strict mode:
\* arrays with the same keys at the same indexes match exactly when every
\* pair of items is within the rules, in either mode.
C24_ItemRulesGovern ==
    /\ pc = "done" /\ result.kind = "report"
    /\ S0 \in RuledSchemas /\ Len(B0.e) = Len(C0.e)
    => (result.is_match <=> \A j \in 1..Len(B0.e) : Governed(B0.e[j], C0.e[j]))

\* What C25 says of the report of a candidate that lacks the baseline's tail
MissingTailReported ==
    IF Truthy(Get(S0, "x-migration-ignore-missing-items"))
    THEN /\ result.diffs = <<>>
         /\ Len(result.warnings) = 1
         /\ result.warnings[1].type = "ARRAY_ITEM_MISSING"
    ELSE /\ Cardinality(DiffsOfType("ARRAY_LENGTH_MISMATCH")) = 1
         /\ \A i \in Len(C0.e)..(Len(B0.e) - 1) :
               Cardinality(EntriesOf(result.diffs, "ARRAY_ITEM_MISSING", <<IdxSeg(i)>>)) = 1

\* C25: with fail_fast off, a strict array whose candidate is the baseline
\* without its tail gives, with ignore_missing_items, one ARRAY_ITEM_MISSING
\* warning and no diff; without it, one ARRAY_ITEM_MISSING diff for every
\* missing index and one ARRAY_LENGTH_MISMATCH.
C25_MissingTail ==
    /\ pc = "done" /\ result.kind = "report" /\ ~cfg.fail_fast
    /\ StrictRoot /\ ProperPrefix(C0, B0)
    => MissingTailReported

\* The tolerance of field a is no duration string
InvalidTolerance ==
    LET tolerance == Get(FieldNode("a"), "x-migration-datetime-tolerance") IN
    tolerance # Null /\ (IsStr(tolerance) => ~DurationTab[tolerance.s].valid)

\* C26: a datetime field whose tolerance is no valid duration string is
\* reported as one VALUE_MISMATCH diff at the field, its message naming the
\* invalid tolerance format: the call does not fail and the report has no
\* DATETIME_EXCEEDED entry.
C26_InvalidTolerance ==
    /\ pc = "done" /\ InvalidTolerance
    /\ Has(FieldNode("a"), "x-migration-datetime-format")
    => /\ result.kind = "report"
       /\ Len(result.diffs) = 1
       /\ result.diffs[1].path = <<KeySeg("a")>>
       /\ result.diffs[1].type = "VALUE_MISMATCH"
       /\ result.diffs[1].message.kind = "Invalid tolerance format"

\* The references in the definition a reference leads to
RefTargets(schema, ref) ==
    IF BadRef(schema, ref) THEN {}
    ELSE RefsOf(WalkPointer(schema, RefTab[ref].parts).v)

\* The references that resolving some of refs leads to, in any number of steps
RECURSIVE RefClosure(_, _)
RefClosure(schema, refs) ==
    LET more == refs \cup UNION {RefTargets(schema, ref) : ref \in refs} IN
    IF more = refs THEN refs ELSE RefClosure(schema, more)

\* Resolving some reference of the schema leads back to it
Cyclic(schema) ==
    \E ref \in RefsOf(schema) : ref \in RefClosure(schema, RefTargets(schema, ref))

\* The depths at which the schema has a node with a $ref
RECURSIVE RefDepths(_, _)
RefDepths(node, depth) ==
    IF IsObj(node)
    THEN IF Has(node, "$ref") THEN {depth}
         ELSE UNION {RefDepths(node.f[key], depth + 1) : key \in DOMAIN node.f}
    ELSE IF IsArr(node)
         THEN UNION {RefDepths(node.e[j], depth + 1) : j \in 1..Len(node.e)}
         ELSE {}

\* What resolve() did at the first call: its outcome and the stack it left
Resolved == resolve([schema |-> S0, max_depth |-> cfg.max_depth])

\* C27: resolving the schema ends with the resolution stack empty, whether
\* it returns or fails; a schema with a reference that leads back to itself,
\* resolved to the default depth, fails with CircularRefError; a schema whose
\* references all lie deeper than max_depth is returned as it is, nothing
\* raised.
C27_ResolutionTerminates ==
    /\ pc = "done" /\ calls = 1 /\ IsObj(S0) /\ RefsOf(S0) # {}
    => /\ Resolved.stack = <<>>
       /\ (Cyclic(S0) /\ cfg.max_depth = DefaultMaxDepth
             => /\ Resolved.exc = "CircularRefError"
                /\ result.kind = "error" /\ result.type = "CircularRefError")
       /\ ((\A d \in RefDepths(S0, 0) : d > cfg.max_depth)
             => /\ Resolved.exc = "none" /\ Resolved.v = S0
                /\ result.kind = "report")

\* A schema whose definition refers to itself inside a property was resolved
\* to the default depth and the call failed with CircularRefError
C27_CycleFound ==
    /\ pc = "done" /\ cfg.max_depth = DefaultMaxDepth
    /\ S0 = RefSchema("#/definitions/Main", Property("a", Ref("#/definitions/Main")))
    /\ result.kind = "error" /\ result.type = "CircularRefError"

\* A root array of numbers in unordered mode
UnorderedRoot ==
    /\ IsArr(B0) /\ IsArr(C0) /\ IsObj(S0)
    /\ Get(S0, "x-migration-array-mode") = Str("unordered")

\* Two items of the root array compare equal under the rules of its items
ItemsAlike(old_item, new_item) ==
    compare_numbers(old_item, new_item,
                    IF Has(S0, "items")
                    THEN extract_field_rules(Get(S0, "items"), DefaultRules).precision
                    ELSE Null).is_match

\* The pairs <<i, j>> of a one-to-one matching that gives every old item, in
\* index order, the first new item alike that is not yet paired
RECURSIVE FirstFit(_, _)
FirstFit(i, paired) ==
    IF i > Len(B0.e) THEN {}
    ELSE LET free == {j \in 1..Len(C0.e) : j \notin paired /\ ItemsAlike(B0.e[i], C0.e[j])}
         IN IF free = {} THEN FirstFit(i + 1, paired)
            ELSE LET j == CHOOSE k \in free : \A l \in free : k <= l
                 IN {<<i, j>>} \cup FirstFit(i + 1, paired \cup {j})

UnpairedOld == {i \in 1..Len(B0.e) : \A pair \in FirstFit(1, {}) : pair[1] # i}
UnpairedNew == {j \in 1..Len(C0.e) : \A pair \in FirstFit(1, {}) : pair[2] # j}
LetsMissingThrough ==
    \/ Truthy(Get(S0, "x-migration-ignore-missing-items"))
    \/ Truthy(Get(S0, "x-migration-array-subset"))
LetsExtraThrough == Truthy(Get(S0, "x-migration-ignore-extra-items"))

\* The entries expected for the unpaired items
MissingDiffs == IF LetsMissingThrough THEN {} ELSE UnpairedOld
ExtraDiffs == IF LetsExtraThrough THEN {} ELSE UnpairedNew
ExtraWarnings == IF LetsExtraThrough THEN UnpairedNew ELSE {}

\* C28: for an unordered array the report holds the entries of a one-to-one
\* first-fit matching and nothing else: one ARRAY_ITEM_MISSING diff for each
\* unpaired old item unless ignore_missing_items or array_subset is set, one
\* ARRAY_ITEM_EXTRA diff for each unpaired new item, or a warning with
\* ignore_extra_items; the trial comparisons leave no diff, warning or trace,
\* and the abort flag is set only by a diff of the outer differ.
C28_UnorderedOneToOne ==
    /\ pc = "done" /\ result.kind = "report" /\ UnorderedRoot
    => /\ \A i \in 1..Len(B0.e) :
             Cardinality(EntriesOf(result.diffs, "ARRAY_ITEM_MISSING", <<IdxSeg(i - 1)>>))
                = IF i \in MissingDiffs THEN 1 ELSE 0
       /\ \A j \in 1..Len(C0.e) :
             /\ Cardinality(EntriesOf(result.diffs, "ARRAY_ITEM_EXTRA", <<IdxSeg(j - 1)>>))
                   = IF j \in ExtraDiffs THEN 1 ELSE 0
             /\ Cardinality(EntriesOf(result.warnings, "ARRAY_ITEM_EXTRA", <<IdxSeg(j - 1)>>))
                   = IF j \in ExtraWarnings THEN 1 ELSE 0
       /\ Len(result.diffs) = Cardinality(MissingDiffs) + Cardinality(ExtraDiffs)
       /\ Len(result.warnings) = Cardinality(ExtraWarnings)
       /\ result.trace = <<>>
       /\ differ._aborted = (cfg.fail_fast /\ result.diffs # <<>>)
       /\ result.is_match = (result.diffs = <<>>)

\* An unordered array with an item twice was compared with one that has it
\* once: the second was left unpaired after trial comparisons that failed
C28_SecondLeftUnpaired ==
    /\ pc = "done" /\ result.kind = "report" /\ UnorderedRoot
    /\ Len(B0.e) = 3 /\ Len(C0.e) = 2 /\ UnpairedOld # {} /\ UnpairedNew = {}
    /\ Cardinality(FirstFit(1, {})) = 2
    /\ Len(result.diffs) = 1 /\ result.diffs[1].type = "ARRAY_ITEM_MISSING"

\* The item has the key field sku
Keyed(item) == IsObj(item) /\ Has(item, "sku")

\* The array has an item with the key of the item
Counterpart(item, array) ==
    /\ Keyed(item)
    /\ \E j \in 1..Len(array.e) :
          Keyed(array.e[j]) /\ KeyEq(<<Get(array.e[j], "sku")>>, <<Get(item, "sku")>>)

\* C29: keyed by sku without ignore flags, a baseline item that has no
\* counterpart in the candidate, be it an item without the key field or one
\* that is no object, makes is_match false.
C29_EveryItemAccounted ==
    /\ pc = "done" /\ result.kind = "report"
    /\ IsArr(B0) /\ IsArr(C0) /\ IsObj(S0)
    /\ Get(S0, "x-migration-array-mode") = Str("keyed")
    /\ Get(S0, "x-migration-array-key") = Str("sku")
    /\ ~Has(S0, "x-migration-ignore-extra-items")
    /\ ~Has(S0, "x-migration-ignore-missing-items")
    /\ \E j \in 1..Len(B0.e) : ~Counterpart(B0.e[j], C0)
    => ~result.is_match

\* The one-to-one maps of the indexes of the baseline onto those of the
\* candidate
Bijections ==
    {f \in [1..Len(B0.e) -> 1..Len(C0.e)] :
        \A i, k \in 1..Len(B0.e) : i # k => f[i] # f[k]}

\* C30: for an unordered array whose schema sets none of the ignore and subset
\* flags, whenever the items of the baseline can be paired one-to-one with
\* items of the candidate that compare equal to them under the rules of the
\* items, all of them, the report is a match.
C30_BijectionFound ==
    /\ pc = "done" /\ result.kind = "report" /\ UnorderedRoot
    /\ ~LetsMissingThrough /\ ~LetsExtraThrough
    /\ Len(B0.e) = Len(C0.e)
    /\ \E f \in Bijections : \A i \in 1..Len(B0.e) : ItemsAlike(B0.e[i], C0.e[f[i]])
    => result.is_match

====
